---- MODULE Spec2Model ----
(***************************************************************************)
(* A model of the place decoder of spiketag: the Decoder / NaiveBayes      *)
(* classes of spiketag/analysis/decoder.py together with the part of       *)
(* place_field (spiketag/analysis/place_field.py) that they drive.         *)
(*                                                                         *)
(* Conventions.                                                            *)
(*  - Python indices are kept 0-based: an array of length n is a function  *)
(*    with domain 0..n-1; an index array (train_idx, ...) is a sequence of *)
(*    0-based indices.                                                     *)
(*  - A fraction given to partition is a rational <<num, den>>.            *)
(*  - Times are kept in half seconds (TimeRes ticks per second); the       *)
(*    trajectory is sampled once per second, ts[k] = k seconds.            *)
(***************************************************************************)
EXTENDS Integers, Sequences, FiniteSets, TLC

\* pc:  the place_field object of the decoder (self.pc)
\* dec: the decoder object
\* ret: the last call made on the decoder and how it returned
\* arg: the arguments of a call that is still to be made (<<>> when none)
\*      (in the runs of a TetrodeProbe or of a wave_view: that object)
VARIABLES pc, dec, ret, arg

vars == <<pc, dec, ret, arg>>

-----------------------------------------------------------------------------
(* Bounds of the model *)

\* longest trajectory (number of samples of pc.ts) of the partition runs
MaxLen == 4

-----------------------------------------------------------------------------
(* Generic helpers *)

Max(a, b) == IF a >= b THEN a ELSE b

Min(a, b) == IF a <= b THEN a ELSE b

\* the set of the elements of a sequence
Range(s) == {s[i] : i \in 1..Len(s)}

\* np.arange(a, b): the integers a, a+1, ..., b-1 (empty when b <= a)
arange_Inclusive(a, b) == [i \in 1..Max(b - a + 1, 0) |-> a + i - 1]

arange(a, b) == [i \in 1..Max(b - a, 0) |-> a + i - 1]

\* np.round of the rational n/d (d > 0): nearest integer, a tie goes to the
\* even neighbour.  \div is the floor division, so n may be negative.
np_round(n, d) ==
    LET q == n \div d
        r == n - q * d
    IN  IF 2 * r < d THEN q
        ELSE IF 2 * r > d THEN q + 1
        ELSE IF q % 2 = 0 THEN q ELSE q + 1

-----------------------------------------------------------------------------
(* Decoder.partition *)

\* the fractions handed to partition, as <<numerator, denominator>>:
\* below 0, inside [0, 1] and above 1
Fracs == {<<0 - 1, 4>>, <<0, 1>>, <<1, 10>>, <<2, 5>>, <<1, 2>>, <<1, 1>>, <<5, 4>>}

\* f <= g for two fractions
FracLeq(f, g) == f[1] * g[2] <= g[1] * f[2]

\* the cutoff handed to partition (the smoothed speeds are 1 and 2, the cutoff
\* of the place_field is 1)
Cutoffs == {2}

\* Decoder._percent_to_time on a trajectory of len_frame samples
percent_to_time_ClampToLen(len_frame, percent) ==
    LET totime == np_round(percent[1] * len_frame, percent[2])
    IN  IF totime < 0 THEN 0
        ELSE IF totime > len_frame THEN len_frame
        ELSE totime

_percent_to_time(len_frame, percent) ==
    LET totime == np_round(percent[1] * len_frame, percent[2])
    IN  IF totime < 0 THEN 0
        ELSE IF totime > len_frame - 1 THEN len_frame - 1
        ELSE totime

\* idx[v_smoothed[idx] > v_cutoff]
speed_filter_GE(idx, v_smoothed, v_cutoff) ==
    SelectSeq(idx, LAMBDA i : v_smoothed[i] >= v_cutoff)

speed_filter(idx, v_smoothed, v_cutoff) ==
    SelectSeq(idx, LAMBDA i : v_smoothed[i] > v_cutoff)

-----------------------------------------------------------------------------
(* Fixed-point arithmetic standing for the floats of numpy *)

\* ticks per second of the spike times and time bounds (ts[k] = k seconds)
TimeRes == 2

\* a firing rate r (Hz) is kept as the integer r * RateScale, rounded down
RateScale == 60

\* the value written over exact zeros of the fields (1e-25 in the source),
\* kept as the smallest positive fixed-point rate
EPS == 1

\* round(1000 * ln n) for n in 1..64
LnTable ==
    <<0, 693, 1099, 1386, 1609, 1792, 1946, 2079, 2197, 2303, 2398, 2485,
      2565, 2639, 2708, 2773, 2833, 2890, 2944, 2996, 3045, 3091, 3135, 3178,
      3219, 3258, 3296, 3332, 3367, 3401, 3434, 3466, 3497, 3526, 3555, 3584,
      3611, 3638, 3664, 3689, 3714, 3738, 3761, 3784, 3807, 3829, 3850, 3871,
      3892, 3912, 3932, 3951, 3970, 3989, 4007, 4025, 4043, 4060, 4078, 4094,
      4111, 4127, 4143, 4159>>

\* 1000 * ln(1e-25)
LnEps == 0 - 57565

\* 1000 * ln n for a positive integer n
RECURSIVE LnMilli(_)
LnMilli(n) == IF n <= Len(LnTable) THEN LnTable[n] ELSE LnTable[2] + LnMilli(n \div 2)

\* np.log of a rate, in 1/1000 nat
np_log(v) == IF v = EPS THEN LnEps ELSE LnMilli(v) - LnMilli(RateScale)

\* the rate as it enters a float sum: the 1e-25 of a clamped entry is absorbed
RateOf(v) == IF v = EPS THEN 0 ELSE v

\* np.exp in the floats of the model: the exponent range ends at ExpMin
\* (1/1000 nat), below which the result is 0; above, the result is kept with a
\* one-bit mantissa in units of exp(ExpMin / 1000)
ExpMin == 0 - 9000

RECURSIVE Pow2(_)
Pow2(k) == IF k <= 0 THEN 1 ELSE 2 * Pow2(k - 1)

np_exp(x) == IF x < ExpMin THEN 0 ELSE Pow2((x - ExpMin) \div LnTable[2])

\* The numpy arrays of positions are float64.  A float is modelled with a
\* significand of MantissaBits bits (float64 has 53): an integer n is a float
\* when it has at most MantissaBits significant bits, whatever power of two
\* the unit stands for.
MantissaBits == 4

\* the number of low bits an integer a >= 0 loses when it is rounded
lost_bits(a) == CHOOSE k \in 0..(2 * MantissaBits) :
                    /\ a < Pow2(MantissaBits + k)
                    /\ k > 0 => a >= Pow2(MantissaBits + k - 1)

\* the float nearest to the exact result n (ties to the even significand),
\* as every float64 operation rounds its result
fl(n) ==
    LET a  == IF n < 0 THEN 0 - n ELSE n
        u  == Pow2(lost_bits(a))
        q  == a \div u
        r  == a % u
        up == IF 2 * r > u \/ (2 * r = u /\ q % 2 = 1) THEN 1 ELSE 0
    IN  IF n < 0 THEN 0 - (q + up) * u ELSE (q + up) * u

\* the sum of f[i] over the finite set S
RECURSIVE SumOver(_, _)
SumOver(S, f) ==
    IF S = {} THEN 0
    ELSE LET i == CHOOSE j \in S : TRUE IN f[i] + SumOver(S \ {i}, f)

\* an optional argument: <<>> is None, <<v>> is the value v
IsNone(o) == o = <<>>

-----------------------------------------------------------------------------
(* place_field: the trajectory, the occupancy map and the place fields.    *)
(* A place_field object is a record pcr with the attributes named as in    *)
(* the source.  A 2-D map (O, FR, a field) of shape (ybins, xbins) is the  *)
(* row-major sequence of its entries: entry [y][x] is at y * xbins + x + 1.*)

\* self.nbins = (maze_size / bin_size).astype(int), per axis (x, y)
nbins(pcr) ==
    [a \in 1..2 |-> (pcr.maze_range[a][2] - pcr.maze_range[a][1]) \div pcr.bin_size]

xbins(pcr) == nbins(pcr)[1]

ybins(pcr) == nbins(pcr)[2]

n_bins(pcr) == xbins(pcr) * ybins(pcr)

\* self.ts[k], in ticks
ts(k) == k * TimeRes

\* the bin of coordinate c on one axis of np.histogram2d(bins=n, range=[lo, hi]):
\* the last bin includes its right edge, a sample outside the range has none (-1)
hist_bin(c, lo, hi, n) ==
    IF c < lo \/ c > hi THEN 0 - 1
    ELSE IF c = hi THEN n - 1
    ELSE ((c - lo) * n) \div (hi - lo)

\* the flat index of the histogram cell of position p, 0 when p falls in none
hist_cell(pcr, p) ==
    LET bx == hist_bin(p[1], pcr.maze_range[1][1], pcr.maze_range[1][2], xbins(pcr))
        by == hist_bin(p[2], pcr.maze_range[2][1], pcr.maze_range[2][2], ybins(pcr))
    IN  IF bx < 0 \/ by < 0 THEN 0 ELSE by * xbins(pcr) + bx + 1

\* place_field.get_speed: the low-speed samples under the current cutoff
get_speed(pcr) ==
    [pcr EXCEPT !.low_speed_idx =
        {k \in 0..(pcr.ts_len - 1) : pcr.v_smoothed_wide[k] < pcr.v_cutoff}]

\* place_field.get_occupation_map(start, end)
get_occupation_map(pcr, start, end) ==
    LET lo == IF IsNone(start) /\ IsNone(end) THEN ts(0) ELSE start[1]
        hi == IF IsNone(start) /\ IsNone(end) THEN ts(pcr.ts_len - 1) ELSE end[1]
        high == {k \in 0..(pcr.ts_len - 1) :
                    /\ pcr.v_smoothed_wide[k] >= pcr.v_cutoff
                    /\ ts(k) >= lo
                    /\ ts(k) <= hi}
    IN  [pcr EXCEPT
            !.high_speed_idx = high,
            !.O = [b \in 1..n_bins(pcr) |->
                      Cardinality({k \in high : hist_cell(pcr, pcr.pos[k]) = b})]]

\* np.searchsorted(self.ts, s): the number of samples with ts[k] < s
searchsorted(pcr, s) == Cardinality({k \in 0..(pcr.ts_len - 1) : ts(k) < s})

\* place_field._get_firing_pos: the sample index of every spike that is kept
\* (firing_pos is self.pos at these indices)
_get_firing_pos(pcr, spk_times) ==
    LET spk_ts_idx == [i \in 1..Len(spk_times) |-> searchsorted(pcr, spk_times[i]) - 1]
        positive   == SelectSeq(spk_ts_idx, LAMBDA k : k > 0)
    IN  SelectSeq(positive, LAMBDA k : k \notin pcr.low_speed_idx)

\* signal.convolve2d(FR, gkern(kernlen, kernstd), boundary='symm', mode='same')
\* for kernlen 1 and 2, where the normalised Gaussian kernel is uniform
convolve2d(pcr, FR) ==
    LET K    == pcr.kernlen
        W    == xbins(pcr)
        H    == ybins(pcr)
        off  == (K - 1) \div 2
        refl(i, n) == IF i < 0 THEN (0 - i) - 1 ELSE IF i >= n THEN 2 * n - 1 - i ELSE i
        at(y, x)   == FR[refl(y, H) * W + refl(x, W) + 1]
        taps == (0..(K - 1)) \X (0..(K - 1))
    IN  [b \in 1..(W * H) |->
            LET y == (b - 1) \div W
                x == (b - 1) % W
            IN  SumOver(taps, [t \in taps |-> at(y + off - t[1], x + off - t[2])])
                    \div (K * K)]

\* place_field._get_field: firing histogram, rate map FR and smoothed rate map
_get_field(pcr, spk_times) ==
    LET idx == _get_firing_pos(pcr, spk_times)
        firing_map == [b \in 1..n_bins(pcr) |->
            Cardinality({i \in 1..Len(idx) : hist_cell(pcr, pcr.pos[idx[i]]) = b})]
        \* firing_map / (O * dt) with dt = 1 s; nan and inf are set to 0
        FR == [b \in 1..n_bins(pcr) |->
                 IF pcr.O[b] = 0 THEN 0
                 ELSE (firing_map[b] * RateScale) \div pcr.O[b]]
    IN  [firing_pos |-> idx, firing_map |-> firing_map, FR |-> FR,
         FR_smoothed |-> convolve2d(pcr, FR)]

\* place_field.get_field: the spikes of one neuron restricted to [start, end)
get_field(pcr, spk_time_dict, neuron_id, start, end) ==
    LET all == spk_time_dict[neuron_id]
        spk_times == IF ~IsNone(start) /\ ~IsNone(end)
                     THEN SelectSeq(all, LAMBDA s : start[1] <= s /\ s < end[1])
                     ELSE all
    IN  _get_field(pcr, spk_times)

\* place_field.get_fields(spk_time_dict, start, end, v_cutoff): the object
\* after the call
get_fields(pcr, spk_time_dict, start, end, v_cutoff) ==
    LET p1 == get_occupation_map(pcr, start, end)
        n  == Cardinality(DOMAIN spk_time_dict)
        p2 == get_speed(IF IsNone(v_cutoff) THEN p1
                        ELSE [p1 EXCEPT !.v_cutoff = v_cutoff[1]])
        raw == [i \in 1..n |->
                  IF (i - 1) \in DOMAIN spk_time_dict
                  THEN get_field(p2, spk_time_dict, i - 1, start, end).FR_smoothed
                  ELSE [b \in 1..n_bins(p2) |-> 0]]
    IN  [p2 EXCEPT
            !.n_fields = n,
            !.fields = [i \in 1..n |->
                          [b \in 1..n_bins(p2) |-> IF raw[i][b] = 0 THEN EPS ELSE raw[i][b]]]]


\* self.maze_original: the left, down corner of maze_range
maze_original(pcr) == <<pcr.maze_range[1][1], pcr.maze_range[2][1]>>

\* place_field.real_pos_2_binned_pos (integer output):
\* (real_pos - maze_original) // bin_size; the subtraction is rounded, the
\* floor division gives the floor of the exact quotient
real_pos_2_binned_pos(pcr, real_pos) ==
    <<fl(real_pos[1] - maze_original(pcr)[1]) \div pcr.bin_size,
      fl(real_pos[2] - maze_original(pcr)[2]) \div pcr.bin_size>>

\* place_field.binned_pos_2_real_pos: binned_pos * bin_size + maze_original,
\* the product and the sum each rounded
binned_pos_2_real_pos(pcr, binned_pos) ==
    <<fl(fl(binned_pos[1] * pcr.bin_size) + maze_original(pcr)[1]),
      fl(fl(binned_pos[2] * pcr.bin_size) + maze_original(pcr)[2])>>

\* place_field.binned_pos_2_label
binned_pos_2_label(pcr, binned_pos) == binned_pos[1] + binned_pos[2] * xbins(pcr)

\* place_field.label_pos_2_binned_pos
label_pos_2_binned_pos(pcr, label_y) == <<label_y % xbins(pcr), label_y \div xbins(pcr)>>

\* the property place_field.binned_pos: (self.pos - self.maze_original) // self.bin_size
binned_pos_of(pcr) == [k \in 0..(pcr.ts_len - 1) |-> real_pos_2_binned_pos(pcr, pcr.pos[k])]

\* place_field.label_pos: the label of every sample
label_pos(pcr) == [k \in 0..(pcr.ts_len - 1) |-> binned_pos_2_label(pcr, binned_pos_of(pcr)[k])]

\* place_field.scv_2_fc: the counts per state (label 0..S-1, at index label + 1)
\* of the spikes of each neuron and of the samples; a sample whose label is
\* not a state is in no row of the one-hot encoding
scv_2_fc(pcr, scv, pos) ==
    LET S == n_bins(pcr)
        N == Len(scv[1])
        label(t) == binned_pos_2_label(pcr, real_pos_2_binned_pos(pcr, pos[t]))
        at(st)   == {t \in 1..Len(scv) : label(t) = st - 1}
        feature_count == [st \in 1..S |-> [n \in 1..N |->
                             SumOver(at(st), [t \in at(st) |-> scv[t][n]])]]
        class_count   == [st \in 1..S |-> Cardinality(at(st))]
        fired   == SelectSeq([st \in 1..S |-> st], LAMBDA st : SumOver(1..N, feature_count[st]) # 0)
        visited == SelectSeq([st \in 1..S |-> st], LAMBDA st : class_count[st] # 0)
    IN  [feature_count_non_zero_ |-> [k \in 1..Len(fired) |-> feature_count[fired[k]]],
         class_count_non_zero_   |-> [k \in 1..Len(visited) |-> <<class_count[visited[k]]>>],
         classes_non_zero_       |-> [k \in 1..Len(visited) |-> visited[k] - 1]]

\* the assignment fields[i, pos_idx[:, 1], pos_idx[:, 0]] = feature_count[:, i]
\* of fc_2_firing_maps is defined when feature_count has one row per class
\* or a single row, which is broadcast
fc_2_firing_maps_defined(feature_count, classes) ==
    Len(feature_count) = Len(classes) \/ Len(feature_count) = 1

\* place_field.fc_2_firing_maps: one map per column of feature_count
fc_2_firing_maps(pcr, feature_count, classes) ==
    LET row(k) == IF Len(feature_count) = 1 THEN feature_count[1] ELSE feature_count[k]
    IN  [i \in 1..Len(feature_count[1]) |->
            [b \in 1..n_bins(pcr) |->
                LET ks == {k \in 1..Len(classes) : classes[k] = b - 1}
                IN  IF ks = {} THEN 0 ELSE row(CHOOSE k \in ks : TRUE)[i]]]

\* place_field.firing_maps_2_fields with smooth=True:
\* firing_maps / occupation_map / t_window, nan and inf set to 0, smoothed
firing_maps_2_fields(pcr, firing_maps, occupation_map, t_window) ==
    [i \in 1..Len(firing_maps) |->
        convolve2d(pcr, [b \in 1..n_bins(pcr) |->
                            IF occupation_map[1][b] = 0 THEN 0
                            ELSE (firing_maps[i][b] * RateScale)
                                     \div (occupation_map[1][b] * t_window)])]

\* place_field.get_fields_from_scv(scv, pos, t_window): the object after the
\* call and how the call ended.  self.t_step, the default of t_window, is
\* assigned only to a place_field constructed without ts.
get_fields_from_scv(pcr, scv, pos, t_window) ==
    IF Len(scv) # Len(pos) THEN [pc |-> pcr, outcome |-> "AssertionError"]
    ELSE
    LET fc == scv_2_fc(pcr, scv, pos)
        firing_maps == fc_2_firing_maps(pcr, fc.feature_count_non_zero_, fc.classes_non_zero_)
        occupation_map == fc_2_firing_maps(pcr, fc.class_count_non_zero_, fc.classes_non_zero_)
    IN  IF ~fc_2_firing_maps_defined(fc.feature_count_non_zero_, fc.classes_non_zero_)
        THEN [pc |-> pcr, outcome |-> "ValueError"]
        ELSE IF IsNone(t_window)
        THEN [pc |-> [firing_maps |-> firing_maps, occupation_map |-> occupation_map] @@ pcr,
              outcome |-> "AttributeError"]
        ELSE [pc |-> [firing_maps |-> firing_maps, occupation_map |-> occupation_map,
                      fields |-> firing_maps_2_fields(pcr, firing_maps, occupation_map,
                                                      t_window[1])] @@ pcr,
              outcome |-> "ok"]

\* place_field.__call__(t_step) for t_step equal to the step of self.ts:
\* interp_pos samples the trajectory at np.arange(ts[0], ts[-1], t_step), which
\* leaves out the last timestamp, and initialize() recomputes the speed mask
\* and the occupancy; the fields stay as they are
__call__(pcr, t_step) ==
    LET kept == 0..(pcr.ts_len - 2)
        resampled == [pcr EXCEPT !.ts_len = Max(pcr.ts_len - 1, 0),
                                 !.pos = [k \in kept |-> pcr.pos[k]],
                                 !.v_smoothed = [k \in kept |-> pcr.v_smoothed[k]],
                                 !.v_smoothed_wide = [k \in kept |-> pcr.v_smoothed_wide[k]]]
    IN  get_occupation_map(get_speed([t_step |-> t_step] @@ resampled), <<>>, <<>>)

-----------------------------------------------------------------------------
(* spiketag.analysis.core: the helpers the decoder imports *)

\* an array of counts: [ndim |-> 0, data |-> c] is a 0-d scalar,
\* [ndim |-> 1, data |-> <<c1, ..>>] a vector, [ndim |-> 2, data |-> <<row, ..>>]
\* a matrix of rows of equal length
Array(ndim, data) == [ndim |-> ndim, data |-> data]

\* licomb_Matrix(w, X): w[0]*X[0] + w[1]*X[1] + ..., defined for a vector w with
\* one coefficient per matrix of the stack X
licomb_defined(w, X) == w.ndim = 1 /\ Len(w.data) = Len(X)

licomb_Matrix(w, X, nb) ==
    [b \in 1..nb |-> SumOver(1..Len(X), [n \in 1..Len(X) |-> w.data[n] * X[n][b]])]

\* t_window * Fr.sum(axis=0), for a stack Fr of rate maps
poisson_term(t_window, Fr, nb) ==
    [b \in 1..nb |-> t_window * SumOver(1..Len(Fr), [n \in 1..Len(Fr) |-> RateOf(Fr[n][b])])]

\* np.log of a stack of rate maps
log_fields(Fr) == [n \in 1..Len(Fr) |-> [b \in 1..Len(Fr[n]) |-> np_log(Fr[n][b])]]

\* a product t_window * rate (seconds * RateScale Hz) in 1/1000 nat
milli(x) == (1000 * x) \div RateScale

\* bayesian_decoding(Fr, suv, t_window): for every row of suv the unnormalised
\* posterior exp(sum_n suv[n] * log Fr[n] - t_window * sum_n Fr[n])
bayesian_decoding(Fr, suv, t_window, nb) ==
    [i \in 1..Len(suv) |->
        LET w == licomb_Matrix(Array(1, suv[i]), log_fields(Fr), nb)
            pm == poisson_term(t_window, Fr, nb)
        IN  [b \in 1..nb |-> np_exp(w[b] - milli(pm[b]))]]

\* the flat index (0-based, row-major) of the first maximum of a map; a map of
\* NaN (den = 0) has its maximum at its first entry
first_max(num) ==
    CHOOSE k \in 1..Len(num) :
        /\ \A j \in 1..Len(num) : num[j] <= num[k]
        /\ \A j \in 1..(k - 1) : num[j] < num[k]

\* argmax_2d_tensor: (x, y) = (index % xbins, index // xbins) of the maximum
argmax_2d_tensor(post, W) ==
    LET k == first_max(post) - 1 IN <<k % W, k \div W>>


-----------------------------------------------------------------------------
(* mua_count_cut_off.  A count matrix X is the sequence of its rows (row i  *)
(* of Python is X[i + 1]); the labels y are None (<<>>) or <<the sequence   *)
(* of one label per row>>.                                                  *)

\* the passes of the loop `for i in range(100)`
Passes == 100

\* X.sum(axis=1) of one row
row_total(r) == SumOver(1..Len(r), r)

\* the row read by X[idx - 1]: the row before, and for row 0 the index -1,
\* which numpy resolves to the last row
previous_row(i, n) == IF i = 1 THEN n ELSE i - 1

\* a pass that replaces the counts of the low rows and leaves the labels
mua_pass_CountsOnly(X, y, minimum_spikes) ==
    LET n   == Len(X)
        idx == {i \in 1..n : row_total(X[i]) <= minimum_spikes}
    IN  [X |-> [i \in 1..n |-> IF i \in idx THEN X[previous_row(i, n)] ELSE X[i]] \o <<>>,
         y |-> y]

\* one pass: idx = np.where(mua_count <= minimum_spikes)[0];
\* X[idx] = X[idx-1]; y[idx] = y[idx-1] (the right-hand sides are read before
\* any row is written)
mua_pass(X, y, minimum_spikes) ==
    LET n   == Len(X)
        idx == {i \in 1..n : row_total(X[i]) <= minimum_spikes}
    IN  [X |-> [i \in 1..n |-> IF i \in idx THEN X[previous_row(i, n)] ELSE X[i]] \o <<>>,
         y |-> IF IsNone(y) THEN y
               ELSE <<[i \in 1..n |-> IF i \in idx THEN y[1][previous_row(i, n)]
                                      ELSE y[1][i]] \o <<>>>>]

\* the loop: k passes are left (each pass works on the arrays the pass before
\* has written; a matrix without rows stays as it is)
RECURSIVE mua_passes(_, _, _, _)
mua_passes(X, y, minimum_spikes, k) ==
    IF k = 0 \/ Len(X) = 0 THEN [X |-> X, y |-> y]
    ELSE LET r == mua_pass(X, y, minimum_spikes)
         IN  mua_passes(r.X, r.y, minimum_spikes, k - 1)

\* mua_count_cut_off(X, y, minimum_spikes): the pair (X, y) returned
mua_count_cut_off(X, y, minimum_spikes) == mua_passes(X, y, minimum_spikes, Passes)

-----------------------------------------------------------------------------
(* Decoder / NaiveBayes.  A decoder object is a record d; an attribute that *)
(* has not been assigned yet holds <<>> and is guarded by has_pc,           *)
(* partitioned or fitted.  The place_field copy self.pc is the variable pc. *)

\* NaiveBayes.__init__(t_window, t_step=None)
NaiveBayes(t_window) ==
    [t_window |-> t_window, t_step |-> <<>>,
     has_pc |-> FALSE, partitioned |-> FALSE, fitted |-> FALSE,
     train_range |-> <<>>, valid_range |-> <<>>, test_range |-> <<>>,
     low_speed_cutoff |-> <<>>, v_cutoff |-> <<>>,
     train_time |-> <<>>, valid_time |-> <<>>, test_time |-> <<>>,
     train_idx |-> <<>>, valid_idx |-> <<>>, test_idx |-> <<>>,
     fields |-> <<>>, shape |-> <<>>,
     spatial_bin_size |-> <<>>, spatial_origin |-> <<>>,
     poisson_matrix |-> <<>>, log_fr |-> <<>>,
     rt_post_2d |-> <<>>, binned_pos |-> <<>>, post_2d |-> <<>>,
     rt_pred_binned_pos |-> <<>>, neuron_idx |-> <<>>,
     _disable_neuron_idx |-> <<>>]

\* the result of a call: the decoder (and place_field) after it, how it ended
\* ("ok" or the exception raised) and the value returned
Result(d, pcr, outcome, value) ==
    [dec |-> d, pc |-> pcr, outcome |-> outcome, value |-> value]

\* Decoder.partition(training_range, valid_range, testing_range,
\*                   low_speed_cutoff, v_cutoff)
partition(d, pcr, training_range, valid_range, testing_range, low_speed_cutoff, v_cutoff) ==
    LET L  == pcr.ts_len
        d1 == [d EXCEPT !.train_range = training_range,
                        !.valid_range = valid_range,
                        !.test_range  = testing_range,
                        !.low_speed_cutoff = low_speed_cutoff]
        vc == IF IsNone(v_cutoff) THEN pcr.v_cutoff ELSE v_cutoff[1]
        range_time(r) == <<ts(_percent_to_time(L, r[1])), ts(_percent_to_time(L, r[2]))>>
        range_idx(r)  == arange(_percent_to_time(L, r[1]), _percent_to_time(L, r[2]))
        filt(idx, flag) == IF flag THEN speed_filter(idx, pcr.v_smoothed, vc) ELSE idx
    IN  IF ~d.has_pc
        THEN \* self.pc does not exist: the ranges (and a given cutoff) are stored
             Result(IF IsNone(v_cutoff) THEN d1 ELSE [d1 EXCEPT !.v_cutoff = v_cutoff],
                    pcr, "AttributeError", <<>>)
        ELSE Result([d1 EXCEPT
                        !.partitioned = TRUE,
                        !.v_cutoff   = <<vc>>,
                        !.train_time = range_time(training_range),
                        !.valid_time = range_time(valid_range),
                        !.test_time  = range_time(testing_range),
                        \* train and valid are both filtered under 'training'
                        !.train_idx  = filt(range_idx(training_range), low_speed_cutoff.training),
                        !.valid_idx  = filt(range_idx(valid_range), low_speed_cutoff.training),
                        !.test_idx   = filt(range_idx(testing_range), low_speed_cutoff.testing)],
                    pcr, "ok", <<>>)


\* the dictionary comprehension of fit:
\* {i: spk_time_dict[i+1] for i in range(len(spk_time_dict.keys()) - 1)}
remove_first(spk_time_dict) ==
    [i \in 0..(Cardinality(DOMAIN spk_time_dict) - 2) |-> spk_time_dict[i + 1]]

remove_first_defined(spk_time_dict) ==
    \A i \in 0..(Cardinality(DOMAIN spk_time_dict) - 2) : (i + 1) \in DOMAIN spk_time_dict

\* NaiveBayes.fit(remove_first_neuron)
fit(d, pcr, remove_first_neuron) ==
    LET p1 == IF remove_first_neuron
              THEN [pcr EXCEPT !.spk_time_dict = remove_first(pcr.spk_time_dict)]
              ELSE pcr
        p2 == get_fields(p1, p1.spk_time_dict, <<d.train_time[1]>>, <<d.train_time[2]>>,
                         d.v_cutoff)
        nb == n_bins(p2)
    IN  IF ~d.has_pc THEN Result(d, pcr, "AttributeError", <<>>)
        ELSE IF remove_first_neuron /\ ~remove_first_defined(pcr.spk_time_dict)
        THEN Result(d, pcr, "KeyError", <<>>)
        ELSE IF ~d.partitioned
        THEN \* self.train_time does not exist; the dictionary is already replaced
             Result(d, p1, "AttributeError", <<>>)
        ELSE Result([d EXCEPT
                        !.fitted = TRUE,
                        !.fields = p2.fields,
                        !.shape  = <<ybins(p2), xbins(p2)>>,
                        !.spatial_bin_size = p2.bin_size,
                        !.spatial_origin   = <<p2.maze_range[1][1], p2.maze_range[2][1]>>,
                        !.poisson_matrix   = poisson_term(d.t_window, p2.fields, nb),
                        !.log_fr           = log_fields(p2.fields)],
                    p2, "ok", <<>>)

\* [_ for _ in range(self.fields.shape[0]) if _ not in self._disable_neuron_idx]
unmasked(d) ==
    SelectSeq([i \in 1..Len(d.fields) |-> i - 1],
              LAMBDA i : i \notin d._disable_neuron_idx[1])

\* binned_pos * self.spatial_bin_size + self.spatial_origin
real_pos(d, binned_pos) ==
    <<binned_pos[1] * d.spatial_bin_size + d.spatial_origin[1],
      binned_pos[2] * d.spatial_bin_size + d.spatial_origin[2]>>

\* NaiveBayes.predict(X); value is the array of decoded positions, one per row
predict(d, pcr, X) ==
    LET X_arr  == IF X.ndim = 1 THEN <<X.data>> ELSE X.data
        masked == ~IsNone(d._disable_neuron_idx)
        d1     == IF masked THEN [d EXCEPT !.neuron_idx = unmasked(d)] ELSE d
        ncols  == Len(X_arr[1])
        firing_bins  == IF masked
                        THEN [r \in 1..Len(X_arr) |->
                                [j \in 1..Len(d1.neuron_idx) |-> X_arr[r][d1.neuron_idx[j] + 1]]]
                        ELSE X_arr
        place_fields == IF masked
                        THEN [j \in 1..Len(d1.neuron_idx) |-> d.fields[d1.neuron_idx[j] + 1]]
                        ELSE d.fields
        nb      == d.shape[1] * d.shape[2]
        post_2d == bayesian_decoding(place_fields, firing_bins, d.t_window, nb)
        y       == [r \in 1..Len(post_2d) |->
                       real_pos(d, argmax_2d_tensor(post_2d[r], d.shape[2]))]
    IN  IF ~d.fitted THEN Result(d, pcr, "AttributeError", <<>>)
        ELSE IF masked /\ \E j \in 1..Len(d1.neuron_idx) : d1.neuron_idx[j] >= ncols
        THEN Result(d1, pcr, "IndexError", <<>>)
        ELSE IF Len(firing_bins[1]) # Len(place_fields)
        THEN Result(d1, pcr, "ShapeMismatch", <<>>)
        ELSE Result([d1 EXCEPT !.post_2d = post_2d], pcr, "ok", y)

\* the first lines of predict_rt: the rows of a matrix are summed per column,
\* a single row is flattened; a vector with more than one entry is summed to
\* a scalar by the same np.sum(X, axis=0)
aggregate(X) ==
    IF Len(X.data) > 1
    THEN IF X.ndim = 2
         THEN Array(1, [j \in 1..Len(X.data[1]) |->
                          SumOver(1..Len(X.data), [r \in 1..Len(X.data) |-> X.data[r][j]])])
         ELSE Array(0, SumOver(1..Len(X.data), X.data))
    ELSE IF X.ndim = 2 THEN Array(1, X.data[1]) ELSE X

\* the posterior of predict_rt before normalisation:
\* np.exp(licomb_Matrix(firing_bins, np.log(place_fields))
\*        - self.t_window * place_fields.sum(axis=0))
rt_posterior_PlusPoisson(d, firing_bins, place_fields, nb) ==
    LET w  == licomb_Matrix(firing_bins, log_fields(place_fields), nb)
        pm == poisson_term(d.t_window, place_fields, nb)
    IN  [b \in 1..nb |-> np_exp(w[b] + milli(pm[b]))]

rt_posterior(d, firing_bins, place_fields, nb) ==
    LET w  == licomb_Matrix(firing_bins, log_fields(place_fields), nb)
        pm == poisson_term(d.t_window, place_fields, nb)
    IN  [b \in 1..nb |-> np_exp(w[b] - milli(pm[b]))]

\* NaiveBayes.predict_rt(X); value is (y, rt_post_2d).  The normalised
\* posterior rt_post_2d / rt_post_2d.sum() is kept as the numerators and the
\* common denominator.
predict_rt(d, pcr, X) ==
    LET Xs     == aggregate(X)
        masked == ~IsNone(d._disable_neuron_idx)
        d1     == IF masked THEN [d EXCEPT !.neuron_idx = unmasked(d)] ELSE d
        nb     == d.shape[1] * d.shape[2]
        num    == rt_posterior(d, Xs, d.fields, nb)
        post   == [num |-> num, den |-> SumOver(1..nb, num)]
        bp     == argmax_2d_tensor(IF post.den = 0 THEN [b \in 1..nb |-> 0] ELSE num,
                                   d.shape[2])
        y      == <<real_pos(d, bp)>>
    IN  IF ~d.fitted THEN Result(d, pcr, "AttributeError", <<>>)
        ELSE IF masked
        THEN \* X is a vector or a scalar here: X[:, self.neuron_idx] has too many indices
             Result(d1, pcr, "IndexError", <<>>)
        ELSE IF ~licomb_defined(Xs, d.fields)
        THEN Result(d1, pcr, "ShapeMismatch", <<>>)
        ELSE Result([d1 EXCEPT !.rt_post_2d = post, !.rt_pred_binned_pos = <<bp>>],
                    pcr, "ok", <<y, post>>)

\* NaiveBayes.drop_neuron(_disable_neuron_idx): the argument is None, an int n
\* or a list v (idx.type tells which); an int is wrapped in a list, a list is
\* kept as the set of its elements, None is stored as it is
drop_neuron_DeleteFields(d, pcr, idx) ==
    LET new  == IF idx.type = "int" THEN {idx.n} ELSE idx.v
        keep == SelectSeq([i \in 1..Len(d.fields) |-> i], LAMBDA i : (i - 1) \notin new)
    IN  Result([d EXCEPT !._disable_neuron_idx = <<new>>,
                         !.fields = [j \in 1..Len(keep) |-> d.fields[keep[j]]]],
               pcr, "ok", <<>>)

drop_neuron(d, pcr, idx) ==
    LET new == IF idx.type = "int" THEN <<{idx.n}>>
               ELSE IF idx.type = "list" THEN <<idx.v>>
               ELSE <<>>
    IN  Result([d EXCEPT !._disable_neuron_idx = new], pcr, "ok", <<>>)

\* Decoder.connect_to(pc): self.pc is a deep copy of pc, resampled when the
\* decoder has a t_step
connect_to_AdoptFields(d, pcr) ==
    Result([d EXCEPT !.has_pc = TRUE, !.fitted = TRUE, !.fields = pcr.fields,
                     !.shape = <<ybins(pcr), xbins(pcr)>>,
                     !.spatial_bin_size = pcr.bin_size,
                     !.spatial_origin = <<pcr.maze_range[1][1], pcr.maze_range[2][1]>>],
           pcr, "ok", <<>>)

connect_to(d, pcr) ==
    Result([d EXCEPT !.has_pc = TRUE],
           IF IsNone(d.t_step) THEN pcr ELSE __call__(pcr, d.t_step[1]), "ok", <<>>)

\* Decoder.resample(t_step, t_window); self.binner, read for an argument that
\* is None, is not an attribute of the decoder
resample(d, pcr, t_step, t_window) ==
    LET d1 == IF ~IsNone(t_window) /\ t_window[1] # d.t_window
              THEN [d EXCEPT !.t_window = t_window[1]]
              ELSE d
        d2 == [d1 EXCEPT !.t_step = t_step]
    IN  IF IsNone(t_window) THEN Result(d, pcr, "AttributeError", <<>>)
        ELSE IF IsNone(t_step) THEN Result(d1, pcr, "AttributeError", <<>>)
        ELSE IF t_step = d1.t_step THEN Result(d1, pcr, "ok", <<>>)
        ELSE IF ~d.has_pc THEN Result(d2, pcr, "AttributeError", <<>>)
        ELSE connect_to(d2, pcr)


-----------------------------------------------------------------------------
(* The spike-count matrix and Decoder.get_data.  A count matrix is a        *)
(* sequence of rows, a row a sequence of counts, one per neuron in          *)
(* ascending order of the neuron ids.                                       *)

\* the number of neurons of a spike-time dictionary (keys 0..n-1)
n_units(spk_time_dict) == Cardinality(DOMAIN spk_time_dict)

\* core.spk_time_to_scv(spk_time_dict, t_window, ts): the row of reference
\* timestamp k counts, per neuron, the spikes in (ts[k] - t_window, ts[k]].
\* first_row is the first timestamp that gets a row: 0 for one row per
\* timestamp, 1 when the initial timestamp has none.
spk_time_to_scv(spk_time_dict, t_window, ts_len, first_row) ==
    [r \in 1..Max(ts_len - first_row, 0) |->
        LET k == r - 1 + first_row
        IN  [i \in 1..n_units(spk_time_dict) |->
                Cardinality({j \in 1..Len(spk_time_dict[i - 1]) :
                                /\ spk_time_dict[i - 1][j] > ts(k) - t_window * TimeRes
                                /\ spk_time_dict[i - 1][j] <= ts(k)})]]

\* place_field.get_scv(t_window) with B_bins=None, FA_dim=0: the place_field
\* after the call, with the attributes scv and mua_count assigned
get_scv(pcr, t_window, first_row) ==
    LET scv == spk_time_to_scv(pcr.spk_time_dict, t_window, pcr.ts_len, first_row)
    IN  [scv |-> scv, mua_count |-> [r \in 1..Len(scv) |-> row_total(scv[r])]] @@ pcr

\* X[idx] and y[idx]: the rows at the (0-based) indices idx, as a new array
take(a, idx) == [k \in 1..Len(idx) |-> a[idx[k] + 1]]

\* X[:, 1:]
drop_first_column(X) == [r \in 1..Len(X) |-> SubSeq(X[r], 2, Len(X[r]))]

\* one split of get_data: fancy indexing, the cutoff when minimum_spikes > 0,
\* the noise column when first_unit_is_noise
get_split(X, y, idx, minimum_spikes, first_unit_is_noise) ==
    LET picked == [X |-> take(X, idx), y |-> <<take(y, idx)>>]
        cut    == IF minimum_spikes > 0
                  THEN mua_count_cut_off(picked.X, picked.y, minimum_spikes)
                  ELSE picked
    IN  <<IF first_unit_is_noise THEN drop_first_column(cut.X) ELSE cut.X, cut.y[1]>>

\* get_data with y = self.pc.pos in place of self.pc.pos[1:]
get_data_AllPositions(d, pcr, minimum_spikes, first_unit_is_noise, first_row) ==
    IF ~d.has_pc THEN Result(d, pcr, "AttributeError", <<>>)
    ELSE
    LET pc1 == get_scv(pcr, d.t_window, first_row)
        X   == pc1.scv
        y   == [k \in 1..pcr.ts_len |-> pcr.pos[k - 1]]
        train == get_split(X, y, d.train_idx, minimum_spikes, first_unit_is_noise)
        valid == get_split(X, y, d.valid_idx, minimum_spikes, first_unit_is_noise)
        test  == get_split(X, y, d.test_idx, minimum_spikes, first_unit_is_noise)
    IN  IF Len(X) # Len(y) THEN Result(d, pc1, "AssertionError", <<>>)
        ELSE IF ~d.partitioned THEN Result(d, pc1, "AttributeError", <<>>)
        ELSE IF \E k \in 1..Len(d.train_idx) : d.train_idx[k] >= Len(X)
        THEN Result(d, pc1, "IndexError", <<>>)
        ELSE IF \E k \in 1..Len(d.valid_idx) : d.valid_idx[k] >= Len(X)
        THEN Result([train_X |-> train[1], train_y |-> train[2]] @@ d, pc1, "IndexError", <<>>)
        ELSE IF \E k \in 1..Len(d.test_idx) : d.test_idx[k] >= Len(X)
        THEN Result([train_X |-> train[1], train_y |-> train[2],
                     valid_X |-> valid[1], valid_y |-> valid[2]] @@ d, pc1, "IndexError", <<>>)
        ELSE Result([train_X |-> train[1], train_y |-> train[2],
                     valid_X |-> valid[1], valid_y |-> valid[2],
                     test_X  |-> test[1],  test_y  |-> test[2]] @@ d,
                    pc1, "ok", <<train, valid, test>>)

\* Decoder.get_data(minimum_spikes, first_unit_is_noise).  pos has one
\* position per timestamp, so the first assertion holds; y = pos[1:] holds the
\* position of timestamp k + 1 at index k.
get_data(d, pcr, minimum_spikes, first_unit_is_noise, first_row) ==
    IF ~d.has_pc THEN Result(d, pcr, "AttributeError", <<>>)
    ELSE
    LET pc1 == get_scv(pcr, d.t_window, first_row)
        X   == pc1.scv
        y   == [k \in 1..Max(pcr.ts_len - 1, 0) |-> pcr.pos[k]]
        train == get_split(X, y, d.train_idx, minimum_spikes, first_unit_is_noise)
        valid == get_split(X, y, d.valid_idx, minimum_spikes, first_unit_is_noise)
        test  == get_split(X, y, d.test_idx, minimum_spikes, first_unit_is_noise)
    IN  IF Len(X) # Len(y) THEN Result(d, pc1, "AssertionError", <<>>)
        ELSE IF ~d.partitioned THEN Result(d, pc1, "AttributeError", <<>>)
        ELSE IF \E k \in 1..Len(d.train_idx) : d.train_idx[k] >= Len(X)
        THEN Result(d, pc1, "IndexError", <<>>)
        ELSE IF \E k \in 1..Len(d.valid_idx) : d.valid_idx[k] >= Len(X)
        THEN Result([train_X |-> train[1], train_y |-> train[2]] @@ d, pc1, "IndexError", <<>>)
        ELSE IF \E k \in 1..Len(d.test_idx) : d.test_idx[k] >= Len(X)
        THEN Result([train_X |-> train[1], train_y |-> train[2],
                     valid_X |-> valid[1], valid_y |-> valid[2]] @@ d, pc1, "IndexError", <<>>)
        ELSE Result([train_X |-> train[1], train_y |-> train[2],
                     valid_X |-> valid[1], valid_y |-> valid[2],
                     test_X  |-> test[1],  test_y  |-> test[2]] @@ d,
                    pc1, "ok", <<train, valid, test>>)

-----------------------------------------------------------------------------
(* fit and predict statement by statement.  The decoder has no lock: when   *)
(* fit and predict run in two threads, the statements of one run between    *)
(* the statements of the other.                                             *)

\* fit, lines 280-284: get_fields on self.pc, then self.fields = self.pc.fields
\* r is what get_fields and the assignment have computed
fields_assigned(d, r) ==
    IF r.outcome # "ok" THEN r
    ELSE Result([d EXCEPT !.fields = r.dec.fields, !.shape = r.dec.shape], r.pc, "ok", <<>>)

fit_fields(d, pcr) == fields_assigned(d, fit(d, pcr, FALSE))

\* fit, line 285: self.spatial_bin_size, self.spatial_origin
fit_spatial(d, pcr) ==
    [d EXCEPT !.spatial_bin_size = pcr.bin_size, !.spatial_origin = maze_original(pcr)]

\* fit, lines 288-289: self.poisson_matrix, self.log_fr; the fit is complete
fit_cache(d, pcr) ==
    [d EXCEPT !.fitted = TRUE,
              !.poisson_matrix = poisson_term(d.t_window, d.fields, n_bins(pcr)),
              !.log_fr = log_fields(d.fields)]

\* predict, lines 292-305: the binned positions decoded from self.fields (the
\* positions predict returns for a unit bin size at the origin)
predict_binned_pos(d, pcr, X) ==
    predict([d EXCEPT !.fitted = TRUE, !.spatial_bin_size = 1, !.spatial_origin = <<0, 0>>],
            pcr, X)

\* predict, lines 306-307: y = binned_pos * self.spatial_bin_size + self.spatial_origin
predict_real_pos(d, binned_pos) == [r \in 1..Len(binned_pos) |-> real_pos(d, binned_pos[r])]

-----------------------------------------------------------------------------
(* Scoring.  A trajectory is a sequence of positions <<x, y>>; a score is   *)
(* the fraction <<numerator, denominator>> in lowest terms.                 *)

RECURSIVE gcd(_, _)
gcd(a, b) == IF b = 0 THEN a ELSE gcd(b, a % b)

\* the fraction n / d, d > 0, in lowest terms
Fraction(n, d) ==
    LET g == gcd(IF n < 0 THEN 0 - n ELSE n, d)
    IN  <<n \div g, d \div g>>

\* sklearn.metrics.r2_score(y_true, y_pred, multioutput='raw_values'): per
\* column 1 - SS_res / SS_tot, with SS_res the squared error of y_pred and
\* SS_tot the squared deviation of y_true from its mean (both scaled by n^2
\* here); a constant y_true scores 1 when y_pred matches it and 0 otherwise
sklearn_r2_score(y_true, y_pred) ==
    LET n == Len(y_true)
        column(c) ==
            LET total  == SumOver(1..n, [t \in 1..n |-> y_true[t][c]])
                ss_res == n * n * SumOver(1..n, [t \in 1..n |->
                              (y_true[t][c] - y_pred[t][c]) * (y_true[t][c] - y_pred[t][c])])
                ss_tot == SumOver(1..n, [t \in 1..n |->
                              (n * y_true[t][c] - total) * (n * y_true[t][c] - total)])
            IN  IF ss_tot = 0 THEN (IF ss_res = 0 THEN <<1, 1>> ELSE <<0, 1>>)
                ELSE Fraction(ss_tot - ss_res, ss_tot)
    IN  <<column(1), column(2)>>

\* Decoder.r2_score(y_predict, y_true, multioutput=True)
r2_score(y_predict, y_true) == sklearn_r2_score(y_true, y_predict)

\* the scoring statement of auto_pipeline (and of score, which returns it):
\* score = self.r2_score(self.y_test, self.sm_predicted_y)
auto_pipeline_score(y_test, sm_predicted_y) == r2_score(y_test, sm_predicted_y)

\* the scoring statement of load_decoder:
\* score = dec.r2_score(sm_predicted_y, y_test)
load_decoder_score(y_test, sm_predicted_y) == r2_score(sm_predicted_y, y_test)

-----------------------------------------------------------------------------
(* The place_field objects the runs start from *)

\* place_field(pos, v_cutoff, bin_size, kernlen, ts, maze_range) followed by
\* load_spktag: __init__ runs initialize(), the loader runs get_fields()
place_field(ts_len, pos, v_smoothed, v_smoothed_wide, v_cutoff, bin_size, maze_range, kernlen, spk_time_dict) ==
    LET new == [ts_len |-> ts_len, pos |-> pos,
                v_smoothed |-> v_smoothed, v_smoothed_wide |-> v_smoothed_wide,
                v_cutoff |-> v_cutoff, bin_size |-> bin_size, maze_range |-> maze_range,
                kernlen |-> kernlen, low_speed_idx |-> {}, high_speed_idx |-> {},
                O |-> <<>>, spk_time_dict |-> spk_time_dict,
                fields |-> <<>>, n_fields |-> 0]
        initialized == get_occupation_map(get_speed(new), <<>>, <<>>)
    IN  get_fields(initialized, spk_time_dict, <<>>, <<>>, <<>>)

\* the maze of the runs: 4 x 4 units binned by 2, a 2 x 2 grid
Maze == <<<<0, 4>>, <<0, 4>>>>

\* a trajectory without spikes, all samples at the origin, used where only the
\* length and the smoothed speed matter
still_pc(ts_len, v_smoothed) ==
    place_field(ts_len, [k \in 0..(ts_len - 1) |-> <<0, 0>>], v_smoothed, v_smoothed,
                1, 2, Maze, 1, <<>>)

-----------------------------------------------------------------------------
(* Actions *)

\* a call returns: the objects and the record of the call are replaced
Return(op, args, res) ==
    /\ dec' = res.dec
    /\ pc'  = res.pc
    /\ ret' = [op |-> op, args |-> args, outcome |-> res.outcome, value |-> res.value]

Partition(training_range, valid_range, testing_range, low_speed_cutoff, v_cutoff) ==
    Return("partition",
           <<training_range, valid_range, testing_range, low_speed_cutoff, v_cutoff>>,
           partition(dec, pc, training_range, valid_range, testing_range,
                     low_speed_cutoff, v_cutoff))

-----------------------------------------------------------------------------
(* The partition runs: a connected decoder and the arguments of one call of *)
(* partition, drawn at the start                                            *)

\* [start, end] pairs of fractions, and one pair given in reverse
Ranges == {r \in Fracs \X Fracs : FracLeq(r[1], r[2])} \cup {<<<<1, 2>>, <<1, 10>>>>}

ValidRanges == {<<<<2, 5>>, <<1, 2>>>>, <<<<0 - 1, 4>>, <<5, 4>>>>}

Flags == [training : BOOLEAN, valid : BOOLEAN, testing : BOOLEAN]

\* smoothed speeds alternating between slow and fast samples
SpeedProfiles(L) == {[k \in 0..(L - 1) |-> IF k % 2 = p THEN 1 ELSE 2] : p \in 0..1}

NoCall == [op |-> "none", args |-> <<>>, outcome |-> "ok", value |-> <<>>]

InitPart ==
    /\ \E L \in 1..MaxLen : \E v \in SpeedProfiles(L) : pc = still_pc(L, v)
    /\ dec = [NaiveBayes(1) EXCEPT !.has_pc = TRUE]
    /\ ret = NoCall
    /\ \E tr \in Ranges, vr \in ValidRanges, te \in Ranges, lsc \in Flags,
          vc \in {<<>>} \cup {<<c>> : c \in Cutoffs} :
            arg = [training_range |-> tr, valid_range |-> vr, testing_range |-> te,
                   low_speed_cutoff |-> lsc, v_cutoff |-> vc]

CallPartition ==
    /\ arg # <<>>
    /\ Partition(arg.training_range, arg.valid_range, arg.testing_range,
                 arg.low_speed_cutoff, arg.v_cutoff)
    /\ arg' = <<>>

NextPart == CallPartition

SpecPart == InitPart /\ [][NextPart]_vars

-----------------------------------------------------------------------------
(* The decoder runs: a NaiveBayes decoder, connected to a place_field of    *)
(* two or three neurons, under any sequence of partition, fit, drop_neuron, *)
(* predict and predict_rt.  The count array X handed to predict and         *)
(* predict_rt is drawn at the start and kept in arg.                        *)

\* largest spike count of one entry of X
MaxCount == 1

\* the trajectory: six samples, one per second, through the bins
\* (0,0) (1,0) (1,0) (0,1) (1,1) (0,0) of the 2 x 2 grid; sample 2 is slower
\* than the others (wide-smoothed speed 1 against 2)
Trajectory == <<<<1, 1>>, <<3, 1>>, <<3, 1>>, <<1, 3>>, <<3, 3>>, <<1, 1>>>>

\* the spike times (ticks) of the neurons
Spikes == <<<<3, 7, 9>>, <<3, 3, 5>>, <<7, 7, 9>>>>

\* the place_field of n neurons smoothed with a kernel of kernlen bins; the
\* cutoff of the place_field is 1
World(n, kernlen) ==
    place_field(6, [k \in 0..5 |-> Trajectory[k + 1]], [k \in 0..5 |-> 1 + (k % 2)],
                [k \in 0..5 |-> IF k = 2 THEN 1 ELSE 2], 1, 2, Maze, kernlen,
                [i \in 0..(n - 1) |-> Spikes[i + 1]])

DecWorlds == {World(2, 1), World(3, 2)}

Rows(n) == [1..n -> 0..MaxCount]

UnitRow(n) == [j \in 1..n |-> IF j = 1 THEN 1 ELSE 0]

\* X: a vector, a matrix of one row, or a matrix of two rows, of one to three
\* columns
CountArrays ==
    UNION {{Array(1, r) : r \in Rows(n)} \cup {Array(2, <<r>>) : r \in Rows(n)}
             \cup {Array(2, <<r, UnitRow(n)>>) : r \in Rows(n)} : n \in 1..3}

\* the arguments of drop_neuron: the int 0, the list [1, 2]
Masks == {[type |-> "int", n |-> 0, v |-> {}], [type |-> "list", n |-> 0, v |-> {1, 2}]}

Connect(w) == Return("connect_to", <<>>, connect_to(dec, w))

Fit(remove_first_neuron) ==
    Return("fit", remove_first_neuron, fit(dec, pc, remove_first_neuron))

Predict(X) == Return("predict", X, predict(dec, pc, X))

PredictRt(X) == Return("predict_rt", X, predict_rt(dec, pc, X))

DropNeuron(idx) == Return("drop_neuron", idx, drop_neuron(dec, pc, idx))

\* self.pc of a decoder that is not connected
NoPc == [ts_len |-> 0]

InitDec ==
    /\ pc = NoPc
    /\ dec = NaiveBayes(1)
    /\ ret = NoCall
    /\ arg \in CountArrays

NextDec ==
    \/ /\ ~dec.has_pc
       /\ \E w \in DecWorlds : Connect(w)
       /\ UNCHANGED arg
    \/ /\ Partition(<<<<0, 1>>, <<1, 1>>>>, <<<<2, 5>>, <<1, 2>>>>, <<<<1, 2>>, <<1, 1>>>>,
                    [training |-> TRUE, valid |-> FALSE, testing |-> FALSE], <<>>)
       /\ UNCHANGED arg
    \/ /\ Fit(FALSE)
       /\ UNCHANGED arg
    \/ /\ \E idx \in Masks : DropNeuron(idx)
       /\ UNCHANGED arg
    \/ /\ Predict(arg)
       /\ UNCHANGED arg
    \/ /\ PredictRt(arg)
       /\ UNCHANGED arg

SpecDec == InitDec /\ [][NextDec]_vars

-----------------------------------------------------------------------------
(* The fitting runs: a NaiveBayes decoder connected to a place_field, under *)
(* any sequence of partition and fit                                        *)

FitWorlds == {World(n, kl) : n \in 2..3, kl \in 1..2}

InitFit ==
    /\ pc = NoPc
    /\ dec = NaiveBayes(1)
    /\ ret = NoCall
    /\ arg = <<>>

NextFit ==
    \/ /\ ~dec.has_pc
       /\ \E w \in FitWorlds : Connect(w)
       /\ UNCHANGED arg
    \/ /\ \E tr \in {<<<<0, 1>>, <<1, 1>>>>, <<<<0, 1>>, <<1, 2>>>>}, vc \in {<<>>, <<2>>, <<3>>} :
             Partition(tr, <<<<2, 5>>, <<1, 2>>>>, <<<<1, 2>>, <<1, 1>>>>,
                       [training |-> TRUE, valid |-> FALSE, testing |-> FALSE], vc)
       /\ UNCHANGED arg
    \/ /\ \E rm \in BOOLEAN : Fit(rm)
       /\ UNCHANGED arg

SpecFit == InitFit /\ [][NextFit]_vars

-----------------------------------------------------------------------------
(* The cutoff runs: one call of mua_count_cut_off on a count matrix of two  *)
(* neurons, drawn at the start with its labels and the threshold            *)

\* most rows of a matrix all of whose contents are enumerated
MaxRows == 3

\* the rows of the matrices: totals 0, 1, 2 and 3
RowKinds == {<<0, 0>>, <<0, 1>>, <<1, 1>>, <<2, 1>>}

\* a row above every threshold followed by n rows of no spike
LongRun(n) == [i \in 1..(n + 1) |-> IF i = 1 THEN <<2, 1>> ELSE <<0, 0>>]

Matrices ==
    UNION {[1..n -> RowKinds] : n \in 1..MaxRows} \cup {LongRun(Passes), LongRun(Passes + 1)}

\* the labels of a matrix: label i on row i
Labels(X) == [i \in 1..Len(X) |-> i]

InitMua ==
    /\ pc = NoPc
    /\ dec = NaiveBayes(1)
    /\ ret = NoCall
    /\ \E X \in Matrices, m \in 0..2, labelled \in BOOLEAN :
          arg = [X |-> X, y |-> IF labelled THEN <<Labels(X)>> ELSE <<>>,
                 minimum_spikes |-> m]

CallMua ==
    /\ arg # <<>>
    /\ Return("mua_count_cut_off", arg,
              Result(dec, pc, "ok", mua_count_cut_off(arg.X, arg.y, arg.minimum_spikes)))
    /\ arg' = <<>>

NextMua == CallMua

SpecMua == InitMua /\ [][NextMua]_vars

-----------------------------------------------------------------------------
(* The data runs: a decoder, connected to a place_field and partitioned in  *)
(* any order, and one call of get_data whose arguments are drawn at the     *)
(* start                                                                    *)

DataWorlds == {World(2, 1), World(3, 1)}

DataRanges == {<<<<0, 1>>, <<1, 1>>>>, <<<<0, 1>>, <<1, 2>>>>, <<<<2, 5>>, <<1, 1>>>>}

\* get_data; first_row is the row convention of spk_time_to_scv
GetData(minimum_spikes, first_unit_is_noise, first_row) ==
    Return("get_data",
           [minimum_spikes |-> minimum_spikes, first_unit_is_noise |-> first_unit_is_noise,
            first_row |-> first_row],
           get_data(dec, pc, minimum_spikes, first_unit_is_noise, first_row))

InitData ==
    /\ pc = NoPc
    /\ dec = NaiveBayes(1)
    /\ ret = NoCall
    /\ \E ms \in 0..2, noise \in BOOLEAN, first_row \in 0..1 :
          arg = [minimum_spikes |-> ms, first_unit_is_noise |-> noise, first_row |-> first_row]

NextData ==
    \/ /\ ~dec.has_pc
       /\ \E w \in DataWorlds : Connect(w)
       /\ UNCHANGED arg
    \/ /\ arg # <<>>
       /\ \E tr \in DataRanges, training \in BOOLEAN :
             Partition(tr, <<<<2, 5>>, <<1, 2>>>>, <<<<1, 2>>, <<1, 1>>>>,
                       [training |-> training, valid |-> FALSE, testing |-> FALSE], <<>>)
       /\ UNCHANGED arg
    \/ /\ arg # <<>>
       /\ GetData(arg.minimum_spikes, arg.first_unit_is_noise, arg.first_row)
       /\ arg' = <<>>

SpecData == InitData /\ [][NextData]_vars

-----------------------------------------------------------------------------
(* The field runs: a place_field with its spikes loaded, under get_fields   *)
(* and one call of get_fields_from_scv whose arguments are drawn at the     *)
(* start                                                                    *)

\* the positions of the samples handed to get_fields_from_scv
SamplePositions == {<<x, y>> : x \in {1, 3}, y \in {1, 3}}

\* get_fields(v_cutoff=...) on the spikes of the place_field
GetFields(v_cutoff) ==
    /\ pc' = get_fields(pc, pc.spk_time_dict, <<>>, <<>>, v_cutoff)
    /\ ret' = [op |-> "get_fields", args |-> v_cutoff, outcome |-> "ok", value |-> <<>>]
    /\ UNCHANGED dec

GetFieldsFromScv(scv, pos, t_window) ==
    LET r == get_fields_from_scv(pc, scv, pos, t_window)
    IN  /\ pc' = r.pc
        /\ ret' = [op |-> "get_fields_from_scv", args |-> <<scv, pos, t_window>>,
                   outcome |-> r.outcome, value |-> <<>>]
        /\ UNCHANGED dec

InitFields ==
    /\ pc \in {World(2, 1), World(2, 2)}
    /\ dec = NaiveBayes(1)
    /\ ret = NoCall
    /\ \E r1 \in Rows(2), r2 \in Rows(2), p1 \in SamplePositions, p2 \in SamplePositions,
          tw \in {<<>>, <<1>>} :
            arg = [scv |-> <<r1, r2>>, pos |-> <<p1, p2>>, t_window |-> tw]

NextFields ==
    \/ /\ \E vc \in {<<>>, <<2>>} : GetFields(vc)
       /\ UNCHANGED arg
    \/ /\ arg # <<>>
       /\ GetFieldsFromScv(arg.scv, arg.pos, arg.t_window)
       /\ arg' = <<>>

SpecFields == InitFields /\ [][NextFields]_vars

-----------------------------------------------------------------------------
(* The firing-position runs: a place_field whose cutoff leaves one sample   *)
(* in the low-speed set, and _get_firing_pos on spike trains drawn at the   *)
(* start                                                                    *)

\* the spike times: every tick from the first timestamp to past the last
SpikeTimes == 0..(ts(5) + 1)

SpikeTrains == {<<>>} \cup {<<s>> : s \in SpikeTimes} \cup (SpikeTimes \X SpikeTimes)

GetFiringPos(spk_times) ==
    /\ ret' = [op |-> "_get_firing_pos", args |-> spk_times, outcome |-> "ok",
               value |-> _get_firing_pos(pc, spk_times)]
    /\ UNCHANGED <<pc, dec>>

InitFiring ==
    /\ pc = get_fields(World(2, 1), World(2, 1).spk_time_dict, <<>>, <<>>, <<2>>)
    /\ dec = NaiveBayes(1)
    /\ ret = NoCall
    /\ arg \in SpikeTrains

NextFiring ==
    /\ GetFiringPos(arg)
    /\ UNCHANGED arg

SpecFiring == InitFiring /\ [][NextFiring]_vars

-----------------------------------------------------------------------------
(* The unit runs: get_fields on a spike-time dictionary drawn at the start, *)
(* whose neuron ids are any ids from 0 to 2                                 *)

\* the spike-time dictionaries: a spike train of Spikes for every id of a
\* non-empty set of ids
SpikeDicts ==
    UNION {[ids -> {Spikes[k] : k \in 1..Len(Spikes)}] : ids \in (SUBSET (0..2)) \ {{}}}

GetFieldsOf(spk_time_dict) ==
    /\ pc' = get_fields(pc, spk_time_dict, <<>>, <<>>, <<>>)
    /\ ret' = [op |-> "get_fields", args |-> spk_time_dict, outcome |-> "ok", value |-> <<>>]
    /\ UNCHANGED dec

InitUnits ==
    /\ pc \in {World(2, 1), World(2, 2)}
    /\ dec = NaiveBayes(1)
    /\ ret = NoCall
    /\ arg \in SpikeDicts

NextUnits ==
    /\ GetFieldsOf(arg)
    /\ UNCHANGED arg

SpecUnits == InitUnits /\ [][NextUnits]_vars

-----------------------------------------------------------------------------
(* The bin runs: a place_field of two samples inside its maze range, the    *)
(* maximum edge included, whose extent is or is not a multiple of the bin   *)
(* size, and the labels of its samples                                      *)

\* the upper ends of the maze range on both axes; the bin size is 2
MazeEnds == {4, 5}

\* the coordinates of the samples in a maze that ends at hi
Coordinates(hi) == {1, 3, hi}

bin_pc(hi, p0, p1) ==
    place_field(2, [k \in 0..1 |-> IF k = 0 THEN p0 ELSE p1], [k \in 0..1 |-> 1],
                [k \in 0..1 |-> 1], 1, 2, <<<<0, hi>>, <<0, hi>>>>, 1, <<>>)

LabelPos ==
    /\ ret' = [op |-> "label_pos", args |-> <<>>, outcome |-> "ok",
               value |-> [binned_pos |-> binned_pos_of(pc), label_pos |-> label_pos(pc),
                          back |-> [k \in 0..(pc.ts_len - 1) |->
                                      label_pos_2_binned_pos(pc, label_pos(pc)[k])]]]
    /\ UNCHANGED <<pc, dec>>

InitBins ==
    /\ \E hi \in MazeEnds :
          \E p0 \in Coordinates(hi) \X Coordinates(hi), p1 \in Coordinates(hi) \X Coordinates(hi) :
              pc = bin_pc(hi, p0, p1)
    /\ dec = NaiveBayes(1)
    /\ ret = NoCall
    /\ arg = <<>>

NextBins ==
    /\ LabelPos
    /\ UNCHANGED arg

SpecBins == InitBins /\ [][NextBins]_vars

-----------------------------------------------------------------------------
(* spiketag.base.Probe: TetrodeProbe.  A probe is the record of its          *)
(* attributes; _g2chs maps a group to the sequence of its channels, _ch2g a  *)
(* channel to a group.                                                       *)

\* the elements of a list
Elements(chs) == {chs[k] : k \in 1..Len(chs)}

\* TetrodeProbe._update_chs2group(chs, g) on the dictionary _ch2g
_update_chs2group(_ch2g, chs, g) ==
    [ch \in DOMAIN _ch2g \cup Elements(chs) |-> IF ch \in Elements(chs) THEN g ELSE _ch2g[ch]]

\* the loop of __init__ over the groups 0 .. n - 1 of g2chs, in this order
RECURSIVE chs2group_of(_, _)
chs2group_of(g2chs, n) ==
    IF n = 0 THEN <<>>
    ELSE _update_chs2group(chs2group_of(g2chs, n - 1), g2chs[n - 1], n - 1)

\* TetrodeProbe(fs, n_ch, g2chs), for arguments that pass the assertions
TetrodeProbe(n_ch, g2chs) ==
    [_n_ch |-> n_ch, _n_group |-> n_ch \div 4, _g2chs |-> g2chs,
     _ch2g |-> chs2group_of(g2chs, Cardinality(DOMAIN g2chs))]

\* TetrodeProbe.__setitem__(group, chs): the probe after the call and how the
\* call ended
__setitem__(probe, group, chs) ==
    IF ~(group >= 0 /\ group < probe._n_group) \/ Len(chs) # 4
    THEN [probe |-> probe, outcome |-> "AssertionError"]
    ELSE [probe |-> [probe EXCEPT !._g2chs = [g \in DOMAIN @ \cup {group} |->
                                                IF g = group THEN chs ELSE @[g]],
                                  !._ch2g = _update_chs2group(@, chs, group)],
          outcome |-> "ok"]

\* TetrodeProbe.get_chs(group), for a group that passes the assertion
get_chs(probe, group) == probe._g2chs[group]

\* TetrodeProbe.belong_group(ch), for a channel that passes the assertion; a
\* channel without a group raises KeyError
belong_group(probe, ch) ==
    IF ch \in DOMAIN probe._ch2g THEN probe._ch2g[ch] ELSE "KeyError"

-----------------------------------------------------------------------------
(* The probe runs: a tetrode probe of 8 channels with the default groups,   *)
(* under __setitem__                                                        *)

\* genTetrodeProbe: group g holds the channels 4g .. 4g + 3
default_gmaps(n_ch) == [g \in 0..((n_ch \div 4) - 1) |-> [k \in 1..4 |-> 4 * g + k - 1]]

\* the channel lists given to __setitem__: the default groups, lists that move
\* channels between the groups, and a list of three channels
ChannelLists ==
    {<<0, 1, 2, 3>>, <<4, 5, 6, 7>>, <<0, 1, 2, 4>>, <<2, 3, 4, 5>>, <<7, 6, 5, 3>>, <<0, 1, 2>>}

SetItem(group, chs) ==
    LET r == __setitem__(arg, group, chs)
    IN  /\ arg' = r.probe
        /\ ret' = [op |-> "__setitem__", args |-> <<group, chs>>, outcome |-> r.outcome,
                   value |-> <<>>]
        /\ UNCHANGED <<pc, dec>>

InitProbe ==
    /\ pc = NoPc
    /\ dec = NaiveBayes(1)
    /\ ret = NoCall
    /\ arg = TetrodeProbe(8, default_gmaps(8))

NextProbe == \E group \in (0 - 1)..2, chs \in ChannelLists : SetItem(group, chs)

SpecProbe == InitProbe /\ [][NextProbe]_vars

-----------------------------------------------------------------------------
(* spiketag.view.wave_view: the gap between the channels.  A wave_view is   *)
(* the record of _gap_value, the gap of its wave visual and the state of    *)
(* the y tick of its cross; gaps are in 1/100.                              *)

\* wave_view(gap_value=...): the y tick of a new Cross is transparent
wave_view(gap_value) == [_gap_value |-> gap_value, waves1_gap |-> gap_value, y_tick |-> FALSE]

\* the setter of wave_view.gap_value: `value == 1` compares and assigns nothing
gap_value_setter(view, value) ==
    LET v == IF value >= 100 THEN value
             ELSE IF value <= 0 THEN 0
             ELSE value
    IN  [view EXCEPT !._gap_value = v, !.waves1_gap = v, !.y_tick = (v = 0)]

\* wave_view.on_mouse_wheel: modifiers is the tuple of the names of the keys
\* held, delta the wheel delta event.delta[1]
on_mouse_wheel(view, modifiers, delta) ==
    IF modifiers # <<>> /\ modifiers[1] = "Control"
    THEN gap_value_setter(view, view._gap_value + 5 * delta)
    ELSE view

-----------------------------------------------------------------------------
(* The view runs: a wave_view with the default gap under mouse-wheel events *)
(* and assignments of gap_value                                             *)

\* the largest gap of the runs, in 1/100
MaxGap == 200

\* the values assigned to gap_value, in 1/100
AssignedGaps == {0 - 50, 0, 50, 100, 150}

MouseWheel(modifiers, delta) ==
    /\ arg' = on_mouse_wheel(arg, modifiers, delta)
    /\ ret' = [op |-> "on_mouse_wheel", args |-> <<modifiers, delta>>, outcome |-> "ok",
               value |-> <<>>]
    /\ UNCHANGED <<pc, dec>>

SetGapValue(value) ==
    /\ arg' = gap_value_setter(arg, value)
    /\ ret' = [op |-> "gap_value", args |-> value, outcome |-> "ok", value |-> <<>>]
    /\ UNCHANGED <<pc, dec>>

InitView ==
    /\ pc = NoPc
    /\ dec = NaiveBayes(1)
    /\ ret = NoCall
    /\ arg = wave_view(76)

NextView ==
    \/ \E modifiers \in {<<>>, <<"Control">>, <<"Shift">>}, delta \in {0 - 1, 1} :
          /\ arg._gap_value + 5 * delta <= MaxGap
          /\ MouseWheel(modifiers, delta)
    \/ \E value \in AssignedGaps : SetGapValue(value)

SpecView == InitView /\ [][NextView]_vars

-----------------------------------------------------------------------------
(* The grid runs: a place_field over a grid of GridBins x GridBins bins     *)
(* whose bin size and origin are floats, and one conversion of a bin to a   *)
(* position and back                                                        *)

GridBins == 4

\* the floats from lo to hi
Floats(lo, hi) == {n \in lo..hi : fl(n) = n}

\* a place_field of one sample at the origin of its maze
grid_pc(bin_size, origin) ==
    place_field(1, [k \in 0..0 |-> <<origin, origin>>], [k \in 0..0 |-> 1], [k \in 0..0 |-> 1],
                1, bin_size,
                <<<<origin, fl(origin + fl(GridBins * bin_size))>>,
                  <<origin, fl(origin + fl(GridBins * bin_size))>>>>, 1, <<>>)

\* real_pos_2_binned_pos(binned_pos_2_real_pos(b))
RoundTrip(b) ==
    /\ ret' = [op |-> "real_pos_2_binned_pos", args |-> b, outcome |-> "ok",
               value |-> real_pos_2_binned_pos(pc, binned_pos_2_real_pos(pc, b))]
    /\ UNCHANGED <<pc, dec>>

InitGrid ==
    /\ \E bin_size \in Floats(1, Pow2(MantissaBits) - 1),
          origin \in Floats(0, Pow2(MantissaBits)) : pc = grid_pc(bin_size, origin)
    /\ dec = NaiveBayes(1)
    /\ ret = NoCall
    /\ arg \in (0..(GridBins - 1)) \X (0..(GridBins - 1))

NextGrid ==
    /\ arg # <<>>
    /\ RoundTrip(arg)
    /\ arg' = <<>>

SpecGrid == InitGrid /\ [][NextGrid]_vars

-----------------------------------------------------------------------------
(* The scoring runs: the test positions and the smoothed decoded positions  *)
(* that auto_pipeline or load_decoder has computed, drawn at the start,     *)
(* and the score either of them takes from these                            *)

\* number of test samples
MaxSamples == 2

ScorePositions == {<<x, y>> : x \in 0..2, y \in 0..1}

ScoreTrajectories == [1..MaxSamples -> ScorePositions]

\* auto_pipeline from the smoothing on: the attributes it assigns and the
\* score it returns
AutoPipelineScore(y_test, sm_predicted_y) ==
    /\ dec' = [y_test |-> y_test, sm_predicted_y |-> sm_predicted_y] @@ dec
    /\ ret' = [op |-> "auto_pipeline", args |-> arg, outcome |-> "ok",
               value |-> auto_pipeline_score(y_test, sm_predicted_y)]
    /\ UNCHANGED pc

\* load_decoder from the smoothing on: the score it prints
LoadDecoderScore(y_test, sm_predicted_y) ==
    /\ ret' = [op |-> "load_decoder", args |-> arg, outcome |-> "ok",
               value |-> load_decoder_score(y_test, sm_predicted_y)]
    /\ UNCHANGED <<pc, dec>>

InitScore ==
    /\ pc = NoPc
    /\ dec = NaiveBayes(1)
    /\ ret = NoCall
    /\ \E y \in ScoreTrajectories, p \in ScoreTrajectories :
          arg = [y_test |-> y, sm_predicted_y |-> p]

NextScore ==
    \/ /\ arg # <<>>
       /\ AutoPipelineScore(arg.y_test, arg.sm_predicted_y)
       /\ arg' = <<>>
    \/ /\ arg # <<>>
       /\ LoadDecoderScore(arg.y_test, arg.sm_predicted_y)
       /\ arg' = <<>>

SpecScore == InitScore /\ [][NextScore]_vars

-----------------------------------------------------------------------------
(* The interleaved runs: one thread connects, partitions and fits, another  *)
(* decodes with predict.  arg holds the position of each thread (fit_at:    *)
(* statements of fit done, predict_at: 1 when predict has decoded the       *)
(* binned positions and not yet returned), the locals of predict, and the   *)
(* model (fields, bin size, origin) of every fit so far, the one in         *)
(* progress included.                                                       *)

\* the maze of World moved by one unit
ShiftedMaze == <<<<1, 5>>, <<1, 5>>>>

ShiftedWorld(n, kernlen) ==
    place_field(6, [k \in 0..5 |-> Trajectory[k + 1]], [k \in 0..5 |-> 1 + (k % 2)],
                [k \in 0..5 |-> IF k = 2 THEN 1 ELSE 2], 1, 2, ShiftedMaze, kernlen,
                [i \in 0..(n - 1) |-> Spikes[i + 1]])

RaceWorlds == {World(2, 1), ShiftedWorld(2, 2)}

RaceCounts == {Array(2, <<<<1, 0>>>>), Array(2, <<<<0, 1>>>>)}

\* the model of a fit: its fields, bin size and origin
ModelOf(d) ==
    [fields |-> d.fields, spatial_bin_size |-> d.spatial_bin_size,
     spatial_origin |-> d.spatial_origin]

InitRace ==
    /\ pc = NoPc
    /\ dec = NaiveBayes(1)
    /\ ret = NoCall
    /\ arg = [fit_at |-> 0, predict_at |-> 0, X |-> <<>>, fields |-> <<>>,
              binned_pos |-> <<>>, models |-> {}]

\* connect_to and partition, between two fits
RaceConnect(w) ==
    /\ arg.fit_at = 0
    /\ Connect(w)
    /\ UNCHANGED arg

RacePartition ==
    /\ arg.fit_at = 0
    /\ \E tr \in {<<<<0, 1>>, <<1, 1>>>>, <<<<0, 1>>, <<1, 2>>>>} :
          Partition(tr, <<<<2, 5>>, <<1, 2>>>>, <<<<1, 2>>, <<1, 1>>>>,
                    [training |-> TRUE, valid |-> FALSE, testing |-> FALSE], <<>>)
    /\ UNCHANGED arg

\* r is the outcome of the first statements of fit
FitFieldsDone(r) ==
    /\ dec' = r.dec
    /\ pc' = r.pc
    /\ ret' = [op |-> "fit", args |-> FALSE, outcome |-> r.outcome, value |-> <<>>]
    /\ arg' = IF r.outcome = "ok"
              THEN [arg EXCEPT !.fit_at = 1,
                               !.models = @ \cup {ModelOf(fit_spatial(r.dec, r.pc))}]
              ELSE arg

FitFields ==
    /\ arg.fit_at = 0
    /\ FitFieldsDone(fit_fields(dec, pc))

FitSpatial ==
    /\ arg.fit_at = 1
    /\ dec' = fit_spatial(dec, pc)
    /\ arg' = [arg EXCEPT !.fit_at = 2]
    /\ UNCHANGED <<pc, ret>>

FitCache ==
    /\ arg.fit_at = 2
    /\ dec' = fit_cache(dec, pc)
    /\ arg' = [arg EXCEPT !.fit_at = 0]
    /\ UNCHANGED <<pc, ret>>

\* predict up to line 305; without self.fields it raises AttributeError
PredictDecode(X) ==
    /\ arg.predict_at = 0
    /\ IF IsNone(dec.fields)
       THEN /\ ret' = [op |-> "predict", args |-> X, outcome |-> "AttributeError",
                       value |-> <<>>]
            /\ UNCHANGED <<dec, arg>>
       ELSE LET r == predict_binned_pos(dec, pc, X)
            IN  /\ ret' = [op |-> "predict", args |-> X, outcome |-> r.outcome,
                           value |-> <<>>]
                /\ dec' = [dec EXCEPT !.post_2d = r.dec.post_2d]
                /\ arg' = IF r.outcome = "ok"
                          THEN [arg EXCEPT !.predict_at = 1, !.X = X, !.fields = dec.fields,
                                           !.binned_pos = r.value]
                          ELSE arg
    /\ UNCHANGED pc

\* predict, lines 306-307; ret.args tells what the call has read
PredictReturn ==
    /\ arg.predict_at = 1
    /\ IF IsNone(dec.spatial_origin)   \* assigned together with spatial_bin_size
       THEN ret' = [op |-> "predict", args |-> arg.X, outcome |-> "AttributeError",
                    value |-> <<>>]
       ELSE ret' = [op |-> "predict",
                    args |-> [fields |-> arg.fields,
                              spatial_bin_size |-> dec.spatial_bin_size,
                              spatial_origin |-> dec.spatial_origin],
                    outcome |-> "returned",
                    value |-> predict_real_pos(dec, arg.binned_pos)]
    /\ arg' = [arg EXCEPT !.predict_at = 0, !.X = <<>>, !.fields = <<>>, !.binned_pos = <<>>]
    /\ UNCHANGED <<pc, dec>>

NextRace ==
    \/ /\ ~dec.has_pc \/ dec.fitted
       /\ \E w \in RaceWorlds : RaceConnect(w)
    \/ RacePartition
    \/ FitFields
    \/ FitSpatial
    \/ FitCache
    \/ \E X \in RaceCounts : PredictDecode(X)
    \/ PredictReturn

SpecRace == InitRace /\ [][NextRace]_vars

-----------------------------------------------------------------------------
(* The cache runs: a NaiveBayes decoder under any sequence of connect_to,   *)
(* partition, fit, resample, drop_neuron, get_data, predict and predict_rt  *)

\* the t_window arguments of resample: None, the window of the decoder, twice it
Windows == {<<>>, <<1>>, <<2>>}

\* the t_step arguments of resample: None, the step of pc.ts
Steps == {<<>>, <<1>>}

Resample(t_step, t_window) ==
    Return("resample", <<t_step, t_window>>, resample(dec, pc, t_step, t_window))

InitCache ==
    /\ pc = NoPc
    /\ dec = NaiveBayes(1)
    /\ ret = NoCall
    /\ arg = Array(2, <<<<1, 0>>>>)

NextCache ==
    \/ /\ ~dec.has_pc
       /\ Connect(World(2, 1))
       /\ UNCHANGED arg
    \/ /\ Partition(<<<<0, 1>>, <<1, 1>>>>, <<<<2, 5>>, <<1, 2>>>>, <<<<1, 2>>, <<1, 1>>>>,
                    [training |-> TRUE, valid |-> FALSE, testing |-> FALSE], <<>>)
       /\ UNCHANGED arg
    \/ /\ Fit(FALSE)
       /\ UNCHANGED arg
    \/ /\ \E t_step \in Steps, t_window \in Windows : Resample(t_step, t_window)
       /\ UNCHANGED arg
    \/ /\ DropNeuron([type |-> "int", n |-> 0, v |-> {}])
       /\ UNCHANGED arg
    \/ /\ GetData(0, FALSE, 1)
       /\ UNCHANGED arg
    \/ /\ Predict(arg)
       /\ UNCHANGED arg
    \/ /\ PredictRt(arg)
       /\ UNCHANGED arg

SpecCache == InitCache /\ [][NextCache]_vars

-----------------------------------------------------------------------------
(* Properties of predict and predict_rt *)

\* the decoder holds a mask set by drop_neuron
Masked == ~IsNone(dec._disable_neuron_idx)

\* the number of neuron columns of a count array
Cols(X) == IF X.ndim = 1 THEN Len(X.data) ELSE Len(X.data[1])

\* X is a matrix of one row
SingleRow(X) == X.ndim = 2 /\ Len(X.data) = 1

\* the last call was op(arg) and returned normally
Returned(op) == ret.op = op /\ ret.outcome = "ok"

\* C1: for a fitted model without a mask and a single count row x of N
\* columns, predict(x) and predict_rt(x) both return, select the same arg-max
\* bin and give the same real-coordinate position.
C1_SameArgmax ==
    (dec.fitted /\ ~Masked /\ SingleRow(arg) /\ Cols(arg) = Len(dec.fields)) =>
        LET p == predict(dec, pc, arg)
            q == predict_rt(dec, pc, arg)
        IN  /\ p.outcome = "ok"
            /\ q.outcome = "ok"
            /\ argmax_2d_tensor(p.dec.post_2d[1], dec.shape[2]) = q.dec.rt_pred_binned_pos[1]
            /\ p.value[1] = q.value[1][1]

\* predict and then predict_rt have decoded the same single row, which holds a
\* spike, to a bin other than the first
C1_Witness ==
    /\ Returned("predict_rt")
    /\ ~Masked
    /\ SingleRow(arg)
    /\ dec.post_2d # <<>>
    /\ \E j \in 1..Cols(arg) : arg.data[1][j] > 0
    /\ dec.rt_pred_binned_pos[1] # <<0, 0>>
    /\ argmax_2d_tensor(dec.post_2d[1], dec.shape[2]) = dec.rt_pred_binned_pos[1]

FieldsInUse(d) == IF IsNone(d._disable_neuron_idx) THEN Len(d.fields) ELSE Len(unmasked(d))

\* C3: a count input whose number of neuron columns is neither the number of
\* fitted fields nor the number of fields left by the mask makes predict and
\* predict_rt fail, with or without a mask; surplus columns are never dropped
\* silently.
C3_ShapeMismatchFails ==
    (dec.fitted /\ Cols(arg) # Len(dec.fields) /\ Cols(arg) # FieldsInUse(dec)) =>
        /\ predict(dec, pc, arg).outcome # "ok"
        /\ predict_rt(dec, pc, arg).outcome # "ok"

\* C4: after fit, a call of predict, predict_rt or drop_neuron leaves fields,
\* log_fr, poisson_matrix, spatial_bin_size and spatial_origin unchanged; only
\* post_2d, rt_post_2d, rt_pred_binned_pos, neuron_idx and the mask may change;
\* the place_field and the caller's count array are not modified.
C4_DecodeLeavesModel ==
    [][(dec.fitted /\ ret'.op \in {"predict", "predict_rt", "drop_neuron"}) =>
          /\ dec'.fields = dec.fields
          /\ dec'.log_fr = dec.log_fr
          /\ dec'.poisson_matrix = dec.poisson_matrix
          /\ dec'.spatial_bin_size = dec.spatial_bin_size
          /\ dec'.spatial_origin = dec.spatial_origin
          /\ dec = [dec' EXCEPT !.post_2d = dec.post_2d,
                                !.rt_post_2d = dec.rt_post_2d,
                                !.rt_pred_binned_pos = dec.rt_pred_binned_pos,
                                !.neuron_idx = dec.neuron_idx,
                                !._disable_neuron_idx = dec._disable_neuron_idx]
          /\ pc' = pc
          /\ arg' = arg]_vars

\* predict_rt, drop_neuron and predict have all run on the fitted decoder
C4_Witness ==
    /\ dec.fitted
    /\ Returned("predict")
    /\ Masked
    /\ dec.neuron_idx # <<>>
    /\ dec.rt_pred_binned_pos # <<>>

\* C5: two calls of fit in a row with the same arguments leave the same
\* fields, log_fr and poisson_matrix after the second call as after the first.
C5_FitIdempotent ==
    [][(/\ ret.op = "fit" /\ ret.outcome = "ok"
        /\ ret'.op = "fit" /\ ret'.outcome = "ok"
        /\ ret'.args = ret.args) =>
          /\ dec'.fields = dec.fields
          /\ dec'.log_fr = dec.log_fr
          /\ dec'.poisson_matrix = dec.poisson_matrix]_vars

\* the decoder without the masked neurons, and a count row without their columns
Unmasked(d) ==
    [d EXCEPT !.fields = [j \in 1..Len(unmasked(d)) |-> d.fields[unmasked(d)[j] + 1]],
              !._disable_neuron_idx = <<>>]

UnmaskedRow(d, X) ==
    Array(2, <<[j \in 1..Len(unmasked(d)) |-> X.data[1][unmasked(d)[j] + 1]]>>)

\* C6: with a mask set, predict and predict_rt decode a count row with the
\* unmasked neurons only: the result is that of a model and a count row that
\* never held the masked neurons.
C6_MaskedDecoding ==
    (dec.fitted /\ Masked /\ SingleRow(arg) /\ Cols(arg) = Len(dec.fields)) =>
        LET d0 == Unmasked(dec)
            x0 == UnmaskedRow(dec, arg)
        IN  /\ predict(dec, pc, arg).outcome = "ok"
            /\ predict(dec, pc, arg).value = predict(d0, pc, x0).value
            /\ predict_rt(dec, pc, arg).outcome = "ok"
            /\ predict_rt(dec, pc, arg).value = predict_rt(d0, pc, x0).value

\* the per-neuron sums of the rows of a matrix, as a matrix of one row
RowSum(X) ==
    Array(2, <<[j \in 1..Cols(X) |->
                 SumOver(1..Len(X.data), [r \in 1..Len(X.data) |-> X.data[r][j]])]>>)

\* C7: predict_rt decodes a vector of N counts as the matrix of one row with
\* the same counts, and a matrix of several rows as the row of its per-neuron
\* sums.
C7_VectorAsRow ==
    (dec.fitted /\ ~Masked /\ Cols(arg) = Len(dec.fields)) =>
        LET row == IF arg.ndim = 1 THEN Array(2, <<arg.data>>) ELSE RowSum(arg)
        IN  /\ predict_rt(dec, pc, arg).outcome = "ok"
            /\ predict_rt(dec, pc, arg).value = predict_rt(dec, pc, row).value

-----------------------------------------------------------------------------
(* Properties of the place fields *)

\* C15: no entry of the fields of a place_field is exactly zero (nan and inf
\* are set to 0 by both constructions before the fields are stored, so an
\* entry is a finite rate, and it is never 0), whether the fields were built
\* by get_fields or by get_fields_from_scv.
C15_NoZeroField ==
    \A i \in 1..Len(pc.fields) : \A b \in 1..Len(pc.fields[i]) : pc.fields[i][b] > 0

\* C16: for every bin b of the grid,
\* real_pos_2_binned_pos(binned_pos_2_real_pos(b)) = b.
C16_GridRoundTrip ==
    ret.op = "real_pos_2_binned_pos" => ret.value = ret.args

-----------------------------------------------------------------------------
(* Properties of scoring *)

\* C17: every scoring path evaluates R2 with the true trajectory as the
\* reference (first argument of the metric) and the predicted trajectory as
\* the estimate: the score of auto_pipeline and of load_decoder is the R2 of
\* the smoothed prediction against the test positions.
C17_TrueTrajectoryIsReference ==
    ret.op \in {"auto_pipeline", "load_decoder"} =>
        ret.value = sklearn_r2_score(ret.args.y_test, ret.args.sm_predicted_y)

\* C18: when the occupancy histogram of the requested time range is all
\* zero, fit fails with DegenerateDataError and leaves no model.
C18_DegenerateOccupancyFails ==
    (/\ ret.op = "fit"
     /\ dec.has_pc /\ dec.partitioned
     /\ \A b \in 1..Len(pc.O) : pc.O[b] = 0) =>
        ret.outcome = "DegenerateDataError"

-----------------------------------------------------------------------------
(* Properties of fit interleaved with predict *)

\* C19: a predict that runs interleaved with fit computes with the model of
\* one single fit: the fields it decoded with and the bin size and origin it
\* converted the result with were written by the same fit.
C19_OneModelPerDecode ==
    (ret.op = "predict" /\ ret.outcome = "returned") =>
        \E model \in arg.models :
            /\ ret.args.fields = model.fields
            /\ ret.args.spatial_bin_size = model.spatial_bin_size
            /\ ret.args.spatial_origin = model.spatial_origin

-----------------------------------------------------------------------------
(* Properties of the cached terms *)

\* C20: in every state after fit the cached terms agree with the model in
\* use: poisson_matrix is t_window times the sum of fields over the neurons,
\* for the current t_window and fields, and log_fr is log(fields).
C20_CacheAgrees ==
    dec.fitted =>
        /\ dec.poisson_matrix = poisson_term(dec.t_window, dec.fields, dec.shape[1] * dec.shape[2])
        /\ dec.log_fr = log_fields(dec.fields)

\* the posterior the cached terms give for the counts X:
\* np.exp(licomb_Matrix(X, self.log_fr) - self.poisson_matrix)
cached_posterior(d, X) ==
    LET nb == d.shape[1] * d.shape[2]
        w  == licomb_Matrix(aggregate(X), d.log_fr, nb)
    IN  [b \in 1..nb |-> np_exp(w[b] - milli(d.poisson_matrix[b]))]

\* C21: the posterior predict_rt returns is the one computed from the count
\* vector and the cached log_fr and poisson_matrix of the fit.
C21_PosteriorFromCache ==
    Returned("predict_rt") => ret.value[2].num = cached_posterior(dec, ret.args)

-----------------------------------------------------------------------------
(* Properties of a get_fields build *)

\* the samples whose wide-smoothed speed is below the cutoff c
SlowSamples(c) == {k \in 0..(pc.ts_len - 1) : pc.v_smoothed_wide[k] < c}

\* get_fields(v_cutoff=c) has returned, over the whole session
BuiltWithCutoff == ret.op = "get_fields" /\ ~IsNone(ret.args)

\* C22: within one get_fields(v_cutoff=c) build the occupancy and the spike
\* exclusion use the mask of the same cutoff c: a sample is counted in the
\* occupancy iff its wide-smoothed speed is >= c, a spike is excluded iff its
\* sample has a wide-smoothed speed < c.
C22_OneMaskPerBuild ==
    BuiltWithCutoff =>
        /\ pc.low_speed_idx = SlowSamples(ret.args[1])
        /\ pc.high_speed_idx = (0..(pc.ts_len - 1)) \ SlowSamples(ret.args[1])

\* the sample in effect at time s: the largest k with ts[k] <= s
sample_at(s) == Cardinality({k \in 0..(pc.ts_len - 1) : ts(k) <= s}) - 1

\* C23: _get_firing_pos maps each spike to the sample in effect at its time
\* (a spike exactly at ts[k] maps to k), discards the spikes mapped to index 0
\* or before and those mapped to a low-speed sample, and keeps one firing
\* position for every other spike.
C23_SampleInEffect ==
    ret.op = "_get_firing_pos" =>
        ret.value = SelectSeq([i \in 1..Len(ret.args) |-> sample_at(ret.args[i])],
                              LAMBDA k : k > 0 /\ k \notin pc.low_speed_idx)

\* the row indices the partition of the decoder holds
partition_indices(d) ==
    {d.train_idx[k] : k \in 1..Len(d.train_idx)}
        \cup {d.valid_idx[k] : k \in 1..Len(d.valid_idx)}
        \cup {d.test_idx[k] : k \in 1..Len(d.test_idx)}

\* C25: every index of train_idx, valid_idx and test_idx is a row of the count
\* matrix get_data builds from the current trajectory, 0 <= i < len(pc.ts) - 1,
\* also after resample has re-sampled the trajectory.
C25_PartitionWithinRows ==
    (dec.has_pc /\ dec.partitioned) =>
        \A i \in partition_indices(dec) : 0 <= i /\ i < pc.ts_len - 1

\* the rate map of one neuron of the dictionary in the build of pc, zeros
\* written over as in the fields
rate_map(spk_time_dict, i) ==
    LET FR_smoothed == get_field(pc, spk_time_dict, i, <<>>, <<>>).FR_smoothed
    IN  [b \in 1..n_bins(pc) |-> IF FR_smoothed[b] = 0 THEN EPS ELSE FR_smoothed[b]]

\* C26: get_fields yields one field per neuron of the dictionary, and
\* fields[i] is the rate map of the neuron with id i, whatever the ids are.
C26_FieldPerNeuron ==
    ret.op = "get_fields" =>
        /\ Len(pc.fields) = Cardinality(DOMAIN ret.args)
        /\ \A i \in DOMAIN ret.args :
              /\ i < Len(pc.fields)
              /\ pc.fields[i + 1] = rate_map(ret.args, i)

\* the samples of the spikes of neuron i counted in its firing histogram by
\* the build of fit, restricted to the training time
counted_samples(i) ==
    get_field(pc, pc.spk_time_dict, i, <<dec.train_time[1]>>, <<dec.train_time[2]>>).firing_pos

\* C27: in the build of fit, restricted to [start, end], every spike counted in
\* the firing histogram of a neuron is mapped to a sample that is counted in
\* the occupancy of the build.
C27_CountedSpikesOccupied ==
    Returned("fit") =>
        \A i \in DOMAIN pc.spk_time_dict :
            \A j \in 1..Len(counted_samples(i)) :
                counted_samples(i)[j] \in pc.high_speed_idx

-----------------------------------------------------------------------------
(* Properties of the bins and labels *)

\* C28: the binned position of every sample inside the maze range, the
\* maximum edge included, lies in [0, xbins-1] x [0, ybins-1]; the labels lie
\* in [0, xbins*ybins-1], distinct bins have distinct labels, and
\* label_pos_2_binned_pos gives back the bin of every label.
C28_BinsWithinGrid ==
    ret.op = "label_pos" =>
        \A k \in 0..(pc.ts_len - 1) :
            /\ ret.value.binned_pos[k] \in (0..(xbins(pc) - 1)) \X (0..(ybins(pc) - 1))
            /\ ret.value.label_pos[k] \in 0..(n_bins(pc) - 1)
            /\ \A j \in 0..(pc.ts_len - 1) :
                  ret.value.binned_pos[j] # ret.value.binned_pos[k]
                      => ret.value.label_pos[j] # ret.value.label_pos[k]
            /\ ret.value.back[k] = ret.value.binned_pos[k]

-----------------------------------------------------------------------------
(* Properties of the tetrode probe *)

\* C29: the two maps of the probe agree: for every channel ch and group g,
\* belong_group(ch) is g if and only if ch is in get_chs(g).
C29_MapsAgree ==
    \A ch \in 0..(arg._n_ch - 1), g \in 0..(arg._n_group - 1) :
        belong_group(arg, ch) = g <=> ch \in Elements(get_chs(arg, g))

-----------------------------------------------------------------------------
(* Properties of the wave view *)

\* C30: after any sequence of Control + mouse-wheel events and assignments
\* the gap_value of the wave_view is within [0, 1].
C30_GapWithinUnit == (ret.op # "none") => (0 <= arg._gap_value /\ arg._gap_value <= 100)

-----------------------------------------------------------------------------
(* Properties of get_data *)

\* get_data has been called on a connected and partitioned decoder
DataCalled == ret.op = "get_data" /\ dec.has_pc /\ dec.partitioned

\* the splits returned by get_data with the index array each was taken at
DataSplits ==
    {<<ret.value[1], dec.train_idx>>, <<ret.value[2], dec.valid_idx>>,
     <<ret.value[3], dec.test_idx>>}

\* the row of the count matrix as get_data returns it
Returned_row(row) == IF ret.args.first_unit_is_noise THEN SubSeq(row, 2, Len(row)) ELSE row

\* C11: the count matrix used by the decoder has exactly one row per
\* reference timestamp, and get_data pairs row i with the position at
\* timestamp i for every timestamp.
C11_RowPerTimestamp ==
    DataCalled =>
        /\ Len(pc.scv) = pc.ts_len
        /\ ret.outcome = "ok"
        /\ ret.args.minimum_spikes = 0 =>
              \A s \in DataSplits : \A k \in 1..Len(s[2]) :
                  /\ s[1][1][k] = Returned_row(pc.scv[s[2][k] + 1])
                  /\ s[1][2][k] = pc.pos[s[2][k]]

\* C11 (amended): get_data succeeds exactly when the count matrix has one row
\* per reference timestamp after the first; it then pairs row i with the
\* position at timestamp i + 1, and every pair it returns is a row of the
\* matrix with the position at the timestamp after the row's index.
C11_RowPerLaterTimestamp ==
    DataCalled =>
        /\ ret.outcome = "ok" <=> Len(pc.scv) = pc.ts_len - 1
        /\ ret.outcome # "ok" => ret.outcome = "AssertionError"
        /\ ret.outcome = "ok" =>
              \A s \in DataSplits :
                  /\ Len(s[1][1]) = Len(s[2]) /\ Len(s[1][2]) = Len(s[2])
                  /\ \A k \in 1..Len(s[2]) :
                        /\ ret.args.minimum_spikes = 0 =>
                              /\ s[1][1][k] = Returned_row(pc.scv[s[2][k] + 1])
                              /\ s[1][2][k] = pc.pos[s[2][k] + 1]
                        /\ \E i \in 0..(pc.ts_len - 2) :
                              /\ s[1][1][k] = Returned_row(pc.scv[i + 1])
                              /\ s[1][2][k] = pc.pos[i + 1]

\* get_data has returned the rows of a training split of three or more
\* indices, without cutoff
C11_Witness ==
    /\ DataCalled
    /\ ret.outcome = "ok"
    /\ ret.args.minimum_spikes = 0
    /\ Len(dec.train_idx) >= 3
    /\ Len(ret.value[1][1]) = Len(dec.train_idx)

-----------------------------------------------------------------------------
(* Properties of mua_count_cut_off *)

\* mua_count_cut_off has returned; ret.args holds the matrix, the labels and
\* the threshold it was called with, ret.value the pair it returned
MuaDone == ret.op = "mua_count_cut_off"

\* row i of X has a total above the threshold m
AboveCutoff(X, i, m) == row_total(X[i]) > m

\* the rows before row i whose total is above m
EarlierAbove(X, i, m) == {j \in 1..(i - 1) : AboveCutoff(X, j, m)}

\* the largest element of a non-empty set of integers
Largest(S) == CHOOSE j \in S : \A k \in S : k <= j

C24_NoLowRowLeft ==
    (MuaDone /\ \E i \in 1..Len(ret.args.X) : AboveCutoff(ret.args.X, i, ret.args.minimum_spikes)) =>
        \A i \in 1..Len(ret.value.X) : AboveCutoff(ret.value.X, i, ret.args.minimum_spikes)

\* C13: when row 0 is the only row at or below the threshold, the cutoff
\* leaves row 0 and its label unchanged.
C13_FirstRowUnchanged ==
    (/\ MuaDone
     /\ \A i \in 1..Len(ret.args.X) :
           AboveCutoff(ret.args.X, i, ret.args.minimum_spikes) <=> i # 1) =>
        /\ ret.value.X[1] = ret.args.X[1]
        /\ ~IsNone(ret.args.y) => ret.value.y[1][1] = 1

\* the rows that the cutoff under threshold m leaves with their own counts
\* and their own label, and those it leaves with their own counts or label
KeptBoth(X, m) ==
    LET r == mua_count_cut_off(X, <<Labels(X)>>, m)
    IN  {i \in 1..Len(X) : r.X[i] = X[i] /\ r.y[1][i] = i}

KeptEither(X, m) ==
    LET r == mua_count_cut_off(X, <<Labels(X)>>, m)
    IN  {i \in 1..Len(X) : r.X[i] = X[i] \/ r.y[1][i] = i}

\* C14: for thresholds m1 <= m2, a row kept with its original content under
\* m2 is kept under m1.
C14_KeptMonotone ==
    MuaDone =>
        \A m1 \in 0..ret.args.minimum_spikes :
            KeptBoth(ret.args.X, ret.args.minimum_spikes) \subseteq KeptEither(ret.args.X, m1)

-----------------------------------------------------------------------------
(* Properties of partition *)

Abs(n) == IF n < 0 THEN 0 - n ELSE n

\* the integer nearest to n/d, the even one of the two when n/d lies half way
RoundNearest(n, d) ==
    CHOOSE k \in (0 - Abs(n) - 1)..(Abs(n) + 1) :
        \/ 2 * Abs(n - k * d) < d
        \/ 2 * Abs(n - k * d) = d /\ k % 2 = 0

\* round(f * L) restricted to [0, L - 1]
ClampedIndex(f, L) == Max(0, Min(RoundNearest(f[1] * L, f[2]), L - 1))

PartitionDone == ret.op = "partition" /\ ret.outcome = "ok"

\* the three splits of the decoder: range, index array, name
Splits ==
    <<[range |-> dec.train_range, idx |-> dec.train_idx],
      [range |-> dec.valid_range, idx |-> dec.valid_idx],
      [range |-> dec.test_range,  idx |-> dec.test_idx]>>

NoSpeedFilter ==
    /\ ~dec.low_speed_cutoff.training
    /\ ~dec.low_speed_cutoff.valid
    /\ ~dec.low_speed_cutoff.testing

\* C8: after partition every index of every split lies between
\* clamp(round(a*L)) (included) and clamp(round(b*L)) (excluded), hence in
\* [0, L-1], and a split that is not speed-filtered is exactly that run of
\* contiguous integers.
C8_PartitionIndexRange ==
    PartitionDone =>
        \A s \in 1..3 :
            LET L   == pc.ts_len
                lo  == ClampedIndex(Splits[s].range[1], L)
                hi  == ClampedIndex(Splits[s].range[2], L)
                idx == Splits[s].idx
            IN  /\ \A i \in 1..Len(idx) :
                       lo <= idx[i] /\ idx[i] < hi /\ 0 <= idx[i] /\ idx[i] <= L - 1
                /\ NoSpeedFilter =>
                       /\ Len(idx) = Max(hi - lo, 0)
                       /\ \A i \in 1..Len(idx) : idx[i] = lo + i - 1

\* C8 witness: a range from below 0 to above 1, unfiltered, on a trajectory of
\* at least 3 samples: the indices 0 .. L-2
C8_Witness ==
    /\ PartitionDone
    /\ NoSpeedFilter
    /\ pc.ts_len >= 3
    /\ dec.train_range = <<<<0 - 1, 4>>, <<5, 4>>>>
    /\ dec.train_idx = [i \in 1..(pc.ts_len - 1) |-> i - 1]

\* the indices of range r that a split keeps when it is filtered (flag) or not
KeptIndices(r, flag) ==
    {i \in _percent_to_time(pc.ts_len, r[1])..(_percent_to_time(pc.ts_len, r[2]) - 1) :
        flag => pc.v_smoothed[i] > dec.v_cutoff[1]}

Increasing(idx) == \A i \in 1..(Len(idx) - 1) : idx[i] < idx[i + 1]

Proper(r) == FracLeq(r[1], r[2])

\* round((end - start) * L)
RoundedSpan(r, L) ==
    RoundNearest((r[2][1] * r[1][2] - r[1][1] * r[2][2]) * L, r[1][2] * r[2][2])

\* two proper ranges that do not overlap: the end of one is at most the start
\* of the other
NonOverlapping(r, q) ==
    /\ Proper(r) /\ Proper(q)
    /\ FracLeq(r[2], q[1]) \/ FracLeq(q[2], r[1])

DisjointSplits ==
    \A s, t \in 1..3 :
        (s # t /\ NonOverlapping(Splits[s].range, Splits[t].range)) =>
            Range(Splits[s].idx) \cap Range(Splits[t].idx) = {}

\* C10 as claimed: the splits of non-overlapping ranges share no index and each
\* has at most round((end - start) * L) elements.
C10_DisjointAndRoundedSize ==
    PartitionDone =>
        /\ DisjointSplits
        /\ \A s \in 1..3 :
               Proper(Splits[s].range) =>
                   Len(Splits[s].idx) <= RoundedSpan(Splits[s].range, pc.ts_len)

\* C10 amended: the splits of non-overlapping ranges (start <= end) share no
\* index, with or without speed filtering, and each has at most
\* round((end - start) * L) + 1 elements.
C10_DisjointAndSizePlusOne ==
    PartitionDone =>
        /\ DisjointSplits
        /\ \A s \in 1..3 :
               Proper(Splits[s].range) =>
                   Len(Splits[s].idx) <= RoundedSpan(Splits[s].range, pc.ts_len) + 1

\* C10 witness: train [0, 0.5] and test [0.5, 1.0], both non-empty
C10_Witness ==
    /\ PartitionDone
    /\ dec.train_range = <<<<0, 1>>, <<1, 2>>>>
    /\ dec.test_range  = <<<<1, 2>>, <<1, 1>>>>
    /\ dec.train_idx # <<>> /\ dec.test_idx # <<>>
    /\ Range(dec.train_idx) \cap Range(dec.test_idx) = {}

====
